---- MODULE Spec2Model ----
(***************************************************************************)
(* The Git source handler of snapcraft_legacy                              *)
(* (src/snapcraft_legacy/internal/sources/_git.py): construction of a Git  *)
(* object, and Git.pull as a sequence of external git invocations, one     *)
(* step per invocation (Spec); the class methods generate_version and      *)
(* check_command_installed (SpecClass); init, add, commit and push         *)
(* (SpecAuthoring); packing of src/snapcraft/pack.py and get_snap_config   *)
(* (SpecPack); the store wrappers of src/snapcraft_legacy/_store.py        *)
(* (SpecStore).                                                            *)
(***************************************************************************)
EXTENDS Integers, Sequences, FiniteSets, TLC

VARIABLES
    args,           \* arguments of the Git(...) constructor call
    git,            \* the constructed Git object (NoGit when there is none)
    raised,         \* exception propagated by the last call (NoError: none)
    dotGit,         \* filesystem: <source_dir>/.git exists
    remoteDefault,  \* remote: name of the default branch of "origin"
    pc,             \* position of the caller / of the running pull
    calledWithDotGit, \* filesystem: .git existed when pull was called
    refspec,        \* local variable of _pull_existing
    reset_spec,     \* local variable of _pull_existing
    issued,         \* git invocations of the current pull: command, exit code
    tree,           \* the working tree and the git installation
    cpc,            \* position of the running call
    call,           \* the last call of a class method or of a wrapper
    queries,        \* subprocess invocations of that call, with their results
    outcome,        \* what that call returned or raised
    fs,             \* filesystem: the directories that exist
    environ,        \* os.environ: the value of the store credentials variable
    events          \* what the running call did, in order, besides subprocesses

gitVars == <<args, git, raised, dotGit, remoteDefault, pc, calledWithDotGit,
             refspec, reset_spec, issued>>

callVars == <<tree, cpc, call, queries, outcome>>

hostVars == <<fs, environ, events>>

vars == <<gitVars, callVars, hostVars>>

----------------------------------------------------------------------------
(* Bounds of the model. *)

MaxDepth == 2

MaxSubmodules == 2

----------------------------------------------------------------------------
(* Python values.  An optional value is None or Some(v). *)

None == << >>

Some(v) == <<v>>

Opt(S) == {None} \cup {Some(v) : v \in S}

\* Truth value of an optional string: None and "" are false.
Truthy(o) == o # None /\ o[1] # ""

\* Truth value of an optional integer: None and 0 are false.
TruthyInt(o) == o # None /\ o[1] # 0

\* Python's `a or b` on optional strings.
PyOr(a, b) == IF Truthy(a) THEN a ELSE b

Digit(d) ==
    CASE d = 0 -> "0" [] d = 1 -> "1" [] d = 2 -> "2" [] d = 3 -> "3"
      [] d = 4 -> "4" [] d = 5 -> "5" [] d = 6 -> "6" [] d = 7 -> "7"
      [] d = 8 -> "8" [] d = 9 -> "9"

RECURSIVE str(_)
\* Python's str() of a non-negative integer.
str(n) == IF n < 10 THEN Digit(n) ELSE str(n \div 10) \o Digit(n % 10)

Range(s) == {s[i] : i \in 1..Len(s)}

----------------------------------------------------------------------------
(* Inputs. *)

Sources == {"https://example.com/repo.git"}

SourceDirs == {"parts/foo/src"}

Tags == {"", "v1.2"}

Branches == {"", "dev"}

Commits == {"", "abc1234"}

Checksums == {"", "sha256/d34db33f"}

Depths == 0..MaxDepth

SubmoduleNames == {"libfoo", "libbar"}

SubmoduleLists == UNION {[1..n -> SubmoduleNames] : n \in 0..MaxSubmodules}

ExitCodes == {0, 1, 128}

HeadCommits == {"0f1e2d3", "4c5b6a7"}

DefaultBranches == {"master", "main"}

CtorArgs ==
    [source : Sources, source_dir : SourceDirs, source_tag : Opt(Tags),
     source_commit : Opt(Commits), source_branch : Opt(Branches),
     source_depth : Opt(Depths), silent : BOOLEAN,
     source_checksum : Opt(Checksums),
     source_submodules : Opt(SubmoduleLists)]

NoArgs == [none |-> TRUE]

NoGit == [none |-> TRUE]

NoError == [kind |-> "none"]

----------------------------------------------------------------------------
(* Construction. *)

\* Base.__init__ as called from Git.__init__: the arguments become the
\* attributes of the same names, and the command is "git".
BaseInit(a) ==
    [source |-> a.source, source_dir |-> a.source_dir,
     source_tag |-> a.source_tag, source_commit |-> a.source_commit,
     source_branch |-> a.source_branch, source_depth |-> a.source_depth,
     source_checksum |-> a.source_checksum,
     source_submodules |-> a.source_submodules,
     command |-> "git", source_details |-> None]

IncompatibleOptions(opts) ==
    [kind |-> "SnapcraftSourceIncompatibleOptionsError",
     source_type |-> "git", options |-> opts]

InvalidOption(opt) ==
    [kind |-> "SnapcraftSourceInvalidOptionError",
     source_type |-> "git", options |-> <<opt>>]

\* Git.__init__ without the branch/commit check.
InitError_NoBranchCommit(a) ==
    IF Truthy(a.source_tag) /\ Truthy(a.source_branch)
    THEN IncompatibleOptions(<<"source-tag", "source-branch">>)
    ELSE IF Truthy(a.source_tag) /\ Truthy(a.source_commit)
    THEN IncompatibleOptions(<<"source-tag", "source-commit">>)
    ELSE IF Truthy(a.source_checksum)
    THEN InvalidOption("source-checksum")
    ELSE NoError

\* Git.__init__ without the checksum check.
InitError_NoChecksum(a) ==
    IF Truthy(a.source_tag) /\ Truthy(a.source_branch)
    THEN IncompatibleOptions(<<"source-tag", "source-branch">>)
    ELSE IF Truthy(a.source_tag) /\ Truthy(a.source_commit)
    THEN IncompatibleOptions(<<"source-tag", "source-commit">>)
    ELSE IF Truthy(a.source_branch) /\ Truthy(a.source_commit)
    THEN IncompatibleOptions(<<"source-branch", "source-commit">>)
    ELSE NoError

\* The checks of Git.__init__, in the order of the code.
InitError(a) ==
    IF Truthy(a.source_tag) /\ Truthy(a.source_branch)
    THEN IncompatibleOptions(<<"source-tag", "source-branch">>)
    ELSE IF Truthy(a.source_tag) /\ Truthy(a.source_commit)
    THEN IncompatibleOptions(<<"source-tag", "source-commit">>)
    ELSE IF Truthy(a.source_branch) /\ Truthy(a.source_commit)
    THEN IncompatibleOptions(<<"source-branch", "source-commit">>)
    ELSE IF Truthy(a.source_checksum)
    THEN InvalidOption("source-checksum")
    ELSE NoError

\* self._call_kwargs
CallKwargs(a) == IF a.silent THEN {"stdout", "stderr"} ELSE {}

\* The object that Git.__init__ leaves when it raises nothing.
NewGit(a) ==
    [f \in DOMAIN BaseInit(a) \cup {"_call_kwargs"} |->
        IF f = "_call_kwargs" THEN CallKwargs(a) ELSE BaseInit(a)[f]]

\* Git.__init__
__init__ ==
    /\ pc = "new"
    /\ \E a \in CtorArgs :
        /\ args' = a
        /\ raised' = InitError(a)
        /\ IF InitError(a) = NoError
           THEN /\ git' = NewGit(a)
                /\ pc' = "idle"
           ELSE /\ git' = NoGit
                /\ pc' = "no_object"
    /\ UNCHANGED <<dotGit, remoteDefault, calledWithDotGit, refspec, reset_spec,
                   issued>>

----------------------------------------------------------------------------
(* External invocations. *)

\* Base._run: run the command; a non-zero exit raises the source command
\* error carrying the command list and the exit code.
_run(command, exit_code) ==
    IF exit_code # 0
    THEN [kind |-> "SourceCommandError", command |-> command,
          exit_code |-> exit_code]
    ELSE NoError

\* Base._run_output: as _run, returning the stripped standard output.
_run_output(command, exit_code) == _run(command, exit_code)

\* One `self._run(command)` statement of pull: the invocation is issued, and
\* either control moves on to `next` or the exception leaves pull.
Invoke(command, exit_code, next) ==
    /\ issued' = Append(issued, [command |-> command, exit_code |-> exit_code])
    /\ raised' = _run(command, exit_code)
    /\ pc' = IF raised' = NoError THEN next ELSE "idle"

----------------------------------------------------------------------------
(* Command lists. *)

\* Git._fetch_origin_commit
FetchOriginCommitCmd(g) ==
    <<g.command, "-C", g.source_dir, "fetch", "origin", g.source_commit[1]>>

\* The scope test written as `is None or len(...) >= 0`.
SubmodulesInScope_EmptyToo(g) ==
    g.source_submodules = None \/ Len(g.source_submodules[1]) >= 0

\* `self.source_submodules is None or len(self.source_submodules) > 0`
SubmodulesInScope(g) ==
    g.source_submodules = None \/ Len(g.source_submodules[1]) > 0

\* Git._pull_existing: the pruning fetch
FetchPruneCmd(g) ==
    <<g.command, "-C", g.source_dir, "fetch", "--prune">>
    \o (IF SubmodulesInScope(g) THEN <<"--recurse-submodules=yes">> ELSE << >>)

\* Git._pull_existing: the hard reset
ResetCmd(g, spec) == <<g.command, "-C", g.source_dir, "reset", "--hard", spec>>

\* The submodule update without the loop over the named submodules.
SubmoduleUpdateCmd_Unnamed(g) ==
    <<g.command, "-C", g.source_dir, "submodule", "update", "--recursive",
      "--force">>

\* Git._pull_existing: the submodule update
SubmoduleUpdateCmd(g) ==
    <<g.command, "-C", g.source_dir, "submodule", "update", "--recursive",
      "--force">>
    \o (IF g.source_submodules # None THEN g.source_submodules[1] ELSE << >>)

\* Git._clone_new: the submodule selectors of the clone
CloneRecursiveArgs(g) ==
    IF g.source_submodules = None
    THEN <<"--recursive">>
    ELSE [i \in 1..Len(g.source_submodules[1]) |->
            "--recursive=" \o g.source_submodules[1][i]]

\* The ref selection written as `tag or branch or commit`.
CloneBranchArgs_CommitToo(g) ==
    IF Truthy(g.source_tag) \/ Truthy(g.source_branch)
       \/ Truthy(g.source_commit)
    THEN <<"--branch",
           PyOr(g.source_tag, PyOr(g.source_branch, g.source_commit))[1]>>
    ELSE << >>

\* Git._clone_new: the ref selection of the clone
CloneBranchArgs(g) ==
    IF Truthy(g.source_tag) \/ Truthy(g.source_branch)
    THEN <<"--branch", PyOr(g.source_tag, g.source_branch)[1]>>
    ELSE << >>

\* The cutoff passed whenever source_depth is not None.
CloneDepthArgs_ZeroToo(g) ==
    IF g.source_depth # None
    THEN <<"--depth", str(g.source_depth[1])>>
    ELSE << >>

\* Git._clone_new: the shallow-clone cutoff
CloneDepthArgs(g) ==
    IF TruthyInt(g.source_depth)
    THEN <<"--depth", str(g.source_depth[1])>>
    ELSE << >>

\* Git._clone_new: the clone
CloneCmd(g) ==
    <<g.command, "clone">> \o CloneRecursiveArgs(g) \o CloneBranchArgs(g)
    \o CloneDepthArgs(g) \o <<g.source, g.source_dir>>

\* Git._clone_new: the checkout of the requested commit
CheckoutCmd(g) ==
    <<g.command, "-C", g.source_dir, "checkout", g.source_commit[1]>>

\* Git._get_source_details: the query of the checked-out commit
RevParseCmd(g) == <<"git", "-C", g.source_dir, "rev-parse", "HEAD">>

----------------------------------------------------------------------------
(* Git.pull *)

\* is_local with the test inverted.
is_local_Inverted == ~dotGit

\* Git.is_local
is_local == dotGit

\* Git.pull choosing as the previous pull of the object chose.
pull_Cached ==
    /\ pc = "idle"
    /\ calledWithDotGit' = dotGit
    /\ pc' = IF calledWithDotGit THEN "_pull_existing" ELSE "_clone_new"
    /\ issued' = << >>
    /\ raised' = NoError
    /\ refspec' = ""
    /\ reset_spec' = ""
    /\ UNCHANGED <<args, git, dotGit, remoteDefault>>

\* Git.pull: the choice between the two sequences.
pull ==
    /\ pc = "idle"
    /\ calledWithDotGit' = dotGit
    /\ pc' = IF is_local THEN "_pull_existing" ELSE "_clone_new"
    /\ issued' = << >>
    /\ raised' = NoError
    /\ refspec' = ""
    /\ reset_spec' = ""
    /\ UNCHANGED <<args, git, dotGit, remoteDefault>>

\* The refspec with a tag resolved under refs/heads/.
Refspec_TagAsBranch(g) ==
    IF Truthy(g.source_branch) THEN "refs/heads/" \o g.source_branch[1]
    ELSE IF Truthy(g.source_tag) THEN "refs/heads/" \o g.source_tag[1]
    ELSE IF Truthy(g.source_commit) THEN g.source_commit[1]
    ELSE "HEAD"

\* Git._pull_existing: the refspec.
Refspec(g) ==
    IF Truthy(g.source_branch) THEN "refs/heads/" \o g.source_branch[1]
    ELSE IF Truthy(g.source_tag) THEN "refs/tags/" \o g.source_tag[1]
    ELSE IF Truthy(g.source_commit) THEN g.source_commit[1]
    ELSE "HEAD"

\* Git._pull_existing: whether the `elif self.source_commit` branch is taken.
CommitBranchTaken(g) ==
    ~Truthy(g.source_branch) /\ ~Truthy(g.source_tag) /\ Truthy(g.source_commit)

\* Git._pull_existing: the target of the hard reset.
ResetSpec(spec) == IF spec # "HEAD" THEN spec ELSE "origin/master"

\* _pull_existing going from the refspec straight to the hard reset.
_pull_existing_refspec_ResetFirst ==
    /\ pc = "_pull_existing"
    /\ refspec' = Refspec(git)
    /\ IF CommitBranchTaken(git)
       THEN \E e \in ExitCodes :
              /\ Invoke(FetchOriginCommitCmd(git), e, "reset")
              /\ reset_spec' = IF e = 0 THEN ResetSpec(refspec') ELSE reset_spec
       ELSE /\ reset_spec' = ResetSpec(refspec')
            /\ pc' = "reset"
            /\ UNCHANGED <<issued, raised>>
    /\ UNCHANGED <<args, git, dotGit, remoteDefault, calledWithDotGit>>

\* Git._pull_existing, up to the assignment of reset_spec.
_pull_existing_refspec ==
    /\ pc = "_pull_existing"
    /\ refspec' = Refspec(git)
    /\ IF CommitBranchTaken(git)
       THEN \E e \in ExitCodes :
              /\ Invoke(FetchOriginCommitCmd(git), e, "fetch_prune")
              /\ reset_spec' = IF e = 0 THEN ResetSpec(refspec') ELSE reset_spec
       ELSE /\ reset_spec' = ResetSpec(refspec')
            /\ pc' = "fetch_prune"
            /\ UNCHANGED <<issued, raised>>
    /\ UNCHANGED <<args, git, dotGit, remoteDefault, calledWithDotGit>>

\* The pruning fetch run again, once, after it failed.
_pull_existing_fetch_RetryOnce ==
    /\ pc = "fetch_prune"
    /\ \E e \in ExitCodes :
        IF /\ e # 0
           /\ \A i \in 1..Len(issued) : issued[i].command # FetchPruneCmd(git)
        THEN /\ issued' = Append(issued, [command |-> FetchPruneCmd(git),
                                          exit_code |-> e])
             /\ UNCHANGED <<raised, pc>>
        ELSE Invoke(FetchPruneCmd(git), e, "reset")
    /\ UNCHANGED <<args, git, dotGit, remoteDefault, calledWithDotGit, refspec,
                   reset_spec>>

\* Git._pull_existing: the pruning fetch.
_pull_existing_fetch ==
    /\ pc = "fetch_prune"
    /\ \E e \in ExitCodes : Invoke(FetchPruneCmd(git), e, "reset")
    /\ UNCHANGED <<args, git, dotGit, remoteDefault, calledWithDotGit, refspec,
                   reset_spec>>

\* Git._pull_existing: the hard reset; the submodule update follows when
\* submodules are in scope, else _pull_existing returns.
_pull_existing_reset ==
    /\ pc = "reset"
    /\ \E e \in ExitCodes :
        Invoke(ResetCmd(git, reset_spec), e,
               IF SubmodulesInScope(git) THEN "submodule_update"
               ELSE "_get_source_details")
    /\ UNCHANGED <<args, git, dotGit, remoteDefault, calledWithDotGit, refspec,
                   reset_spec>>

\* Git._pull_existing: the submodule update.
_pull_existing_submodule ==
    /\ pc = "submodule_update"
    /\ \E e \in ExitCodes :
        Invoke(SubmoduleUpdateCmd(git), e, "_get_source_details")
    /\ UNCHANGED <<args, git, dotGit, remoteDefault, calledWithDotGit, refspec,
                   reset_spec>>

\* The clone with its exit code ignored.
_clone_new_clone_Unchecked ==
    /\ pc = "_clone_new"
    /\ \E e \in ExitCodes :
        /\ issued' = Append(issued, [command |-> CloneCmd(git), exit_code |-> e])
        /\ raised' = NoError
        /\ pc' = IF Truthy(git.source_commit) THEN "fetch_origin_commit"
                 ELSE "_get_source_details"
        /\ dotGit' = IF e = 0 THEN TRUE ELSE dotGit
    /\ UNCHANGED <<args, git, remoteDefault, calledWithDotGit, refspec,
                   reset_spec>>

\* Git._clone_new: the clone; a successful clone creates <source_dir>/.git.
_clone_new_clone ==
    /\ pc = "_clone_new"
    /\ \E e \in ExitCodes :
        /\ Invoke(CloneCmd(git), e,
                  IF Truthy(git.source_commit) THEN "fetch_origin_commit"
                  ELSE "_get_source_details")
        /\ dotGit' = IF e = 0 THEN TRUE ELSE dotGit
    /\ UNCHANGED <<args, git, remoteDefault, calledWithDotGit, refspec,
                   reset_spec>>

\* Git._clone_new: the fetch of the requested commit.
_clone_new_fetch ==
    /\ pc = "fetch_origin_commit"
    /\ \E e \in ExitCodes : Invoke(FetchOriginCommitCmd(git), e, "checkout")
    /\ UNCHANGED <<args, git, dotGit, remoteDefault, calledWithDotGit, refspec,
                   reset_spec>>

\* Git._clone_new: the checkout of the requested commit.
_clone_new_checkout ==
    /\ pc = "checkout"
    /\ \E e \in ExitCodes : Invoke(CheckoutCmd(git), e, "_get_source_details")
    /\ UNCHANGED <<args, git, dotGit, remoteDefault, calledWithDotGit, refspec,
                   reset_spec>>

\* The mapping with the tag filed under source-branch and the branch under
\* source-tag.
SourceDetails_RefsSwapped(g, commit) ==
    [k \in {"source-commit", "source-branch", "source", "source-tag",
            "source-checksum"} |->
        CASE k = "source-commit" -> commit
          [] k = "source-branch" -> g.source_tag
          [] k = "source" -> Some(g.source)
          [] k = "source-tag" -> g.source_branch
          [] k = "source-checksum" -> g.source_checksum]

\* Git._get_source_details: the mapping built from the attributes and the
\* resolved commit (every value optional: None is Python's None).
SourceDetails(g, commit) ==
    [k \in {"source-commit", "source-branch", "source", "source-tag",
            "source-checksum"} |->
        CASE k = "source-commit" -> commit
          [] k = "source-branch" -> g.source_branch
          [] k = "source" -> Some(g.source)
          [] k = "source-tag" -> g.source_tag
          [] k = "source-checksum" -> g.source_checksum]

\* Git.pull: `self.source_details = self._get_source_details()`.
_get_source_details ==
    /\ pc = "_get_source_details"
    /\ IF ~Truthy(git.source_tag) /\ ~Truthy(git.source_branch)
          /\ ~Truthy(git.source_commit)
       THEN \E e \in ExitCodes, head \in HeadCommits :
              /\ issued' = Append(issued,
                                  [command |-> RevParseCmd(git),
                                   exit_code |-> e,
                                   output |-> IF e = 0 THEN head ELSE ""])
              /\ raised' = _run_output(RevParseCmd(git), e)
              /\ git' = IF raised' = NoError
                        THEN [git EXCEPT !.source_details =
                                Some(SourceDetails(git, Some(head)))]
                        ELSE git
       ELSE /\ git' = [git EXCEPT !.source_details =
                         Some(SourceDetails(git, git.source_commit))]
            /\ UNCHANGED <<issued, raised>>
    /\ pc' = "idle"
    /\ UNCHANGED <<args, dotGit, remoteDefault, calledWithDotGit, refspec,
                   reset_spec>>

\* The caller's environment: the metadata directory is removed between pulls.
RemoveMetadata ==
    /\ pc = "idle"
    /\ dotGit
    /\ dotGit' = FALSE
    /\ UNCHANGED <<args, git, raised, remoteDefault, pc, calledWithDotGit, refspec,
                   reset_spec, issued>>

----------------------------------------------------------------------------
(* Text.  Python strings are TLA+ strings; Char(s, i) is s[i - 1]. *)

MaxAhead == 12

Char(s, i) == SubSeq(s, i, i)

Whitespace == {" ", "\t", "\n", "\r"}

RECURSIVE lstrip(_)
lstrip(s) ==
    IF Len(s) > 0 /\ Char(s, 1) \in Whitespace
    THEN lstrip(SubSeq(s, 2, Len(s)))
    ELSE s

RECURSIVE rstrip(_)
rstrip(s) ==
    IF Len(s) > 0 /\ Char(s, Len(s)) \in Whitespace
    THEN rstrip(SubSeq(s, 1, Len(s) - 1))
    ELSE s

\* str.strip()
strip(s) == lstrip(rstrip(s))

DigitClass == {"0", "1", "2", "3", "4", "5", "6", "7", "8", "9"}

LowerClass ==
    {"a", "b", "c", "d", "e", "f", "g", "h", "i", "j", "k", "l", "m", "n",
     "o", "p", "q", "r", "s", "t", "u", "v", "w", "x", "y", "z"}

UpperClass ==
    {"A", "B", "C", "D", "E", "F", "G", "H", "I", "J", "K", "L", "M", "N",
     "O", "P", "Q", "R", "S", "T", "U", "V", "W", "X", "Y", "Z"}

\* [a-zA-Z0-9.+~-]
TagClass == LowerClass \cup UpperClass \cup DigitClass \cup {".", "+", "~", "-"}

\* [0-9a-fA-F]
HexClass ==
    DigitClass \cup {"a", "b", "c", "d", "e", "f", "A", "B", "C", "D", "E", "F"}

RECURSIVE RunEnd(_, _, _)
\* A greedy `[class]*` from position i: the first position it does not take.
RunEnd(s, i, class) ==
    IF i <= Len(s) /\ Char(s, i) \in class THEN RunEnd(s, i + 1, class) ELSE i

NoMatch == [matched |-> FALSE]

\* The pattern after the tag, `-(\d+)-g([0-9a-fA-F]+)$`, without the
\* optional -dirty.
ReTail_NoDirty(s, k) ==
    LET d0 == k + 2
        d1 == RunEnd(s, d0, DigitClass)
        h0 == d1 + 2
        h1 == RunEnd(s, h0, HexClass)
    IN
    IF /\ k + 1 <= Len(s) /\ Char(s, k + 1) = "-"
       /\ d1 > d0
       /\ d1 + 1 <= Len(s) /\ SubSeq(s, d1, d1 + 1) = "-g"
       /\ h1 > h0
       /\ h1 = Len(s) + 1
    THEN [matched |-> TRUE, tag |-> SubSeq(s, 1, k),
          revs_ahead |-> SubSeq(s, d0, d1 - 1),
          commit |-> SubSeq(s, h0, Len(s))]
    ELSE NoMatch

\* The pattern after the tag, from position k + 1 to the end of s:
\* `-(?P<revs_ahead>\d+)-g(?P<commit>[0-9a-fA-F]+(?:-dirty)?)$`.
ReTail(s, k) ==
    LET d0 == k + 2
        d1 == RunEnd(s, d0, DigitClass)
        h0 == d1 + 2
        h1 == RunEnd(s, h0, HexClass)
    IN
    IF /\ k + 1 <= Len(s) /\ Char(s, k + 1) = "-"
       /\ d1 > d0
       /\ d1 + 1 <= Len(s) /\ SubSeq(s, d1, d1 + 1) = "-g"
       /\ h1 > h0
       /\ (h1 = Len(s) + 1 \/ SubSeq(s, h1, Len(s)) = "-dirty")
    THEN [matched |-> TRUE, tag |-> SubSeq(s, 1, k),
          revs_ahead |-> SubSeq(s, d0, d1 - 1),
          commit |-> SubSeq(s, h0, Len(s))]
    ELSE NoMatch

\* re.search of the pattern of generate_version in `output`: the tag is
\* `^[a-zA-Z0-9.+~-]+`, greedy, given back until the rest matches.
re_search(output) ==
    LET ends == {k \in 1..(RunEnd(output, 1, TagClass) - 1) :
                    ReTail(output, k).matched}
    IN
    IF ends = {} THEN NoMatch
    ELSE ReTail(output, CHOOSE k \in ends : \A j \in ends : j <= k)

\* generate_version, from the output of the primary query on.
VersionOf(output) ==
    LET m == re_search(output) IN
    IF ~m.matched THEN output
    ELSE m.tag \o "+git" \o m.revs_ahead \o "." \o m.commit

\* The fallback result without the strip of the output.
FallbackVersion_Unstripped(stdout) == "0+git." \o stdout

\* generate_version: the result of the fallback query.
FallbackVersion(stdout) == "0+git." \o strip(stdout)

----------------------------------------------------------------------------
(* The working tree that generate_version describes. *)

Cwd == "/home/user/project"

VersionDirs == {"", "parts/foo/src"}

TagNames ==
    {"v1.2", "1.0-rc1", "2.0+dfsg~1", "v1_2", "release/1.0", "1.2-3-gabc1234"}

ShortHashes == {"abc1234", "0f1e2d3c"}

NotInstalled ==
    [installed |-> FALSE, kind |-> "not_a_repo", tag |-> "", ahead |-> 0,
     commit |-> "", dirty |-> FALSE]

Trees ==
    {NotInstalled}
    \cup {[NotInstalled EXCEPT !.installed = TRUE]}
    \cup [installed : {TRUE}, kind : {"untagged"}, tag : {""}, ahead : {0},
          commit : ShortHashes, dirty : BOOLEAN]
    \cup [installed : {TRUE}, kind : {"tagged"}, tag : TagNames,
          ahead : 0..MaxAhead, commit : ShortHashes, dirty : BOOLEAN]

DirtySuffix(t) == IF t.dirty THEN "-dirty" ELSE ""

\* What `git describe --dirty [--always]` prints and how it exits in tree t.
Describe(t, always) ==
    CASE t.kind = "not_a_repo" ->
            [exit_code |-> 128, stdout |-> "",
             stderr |-> "fatal: not a git repository (or any of the parent "
                        \o "directories): .git\n"]
      [] t.kind = "untagged" /\ ~always ->
            [exit_code |-> 128, stdout |-> "",
             stderr |-> "fatal: No names found, cannot describe anything.\n"]
      [] t.kind = "untagged" /\ always ->
            [exit_code |-> 0, stderr |-> "",
             stdout |-> t.commit \o DirtySuffix(t) \o "\n"]
      [] t.kind = "tagged" /\ t.ahead = 0 ->
            [exit_code |-> 0, stderr |-> "",
             stdout |-> t.tag \o DirtySuffix(t) \o "\n"]
      [] t.kind = "tagged" /\ t.ahead > 0 ->
            [exit_code |-> 0, stderr |-> "",
             stdout |-> t.tag \o "-" \o str(t.ahead) \o "-g" \o t.commit
                        \o DirtySuffix(t) \o "\n"]

NoCall == [op |-> "none"]

NoOutcome == [kind |-> "none"]

Returned(v) == [kind |-> "return", value |-> v]

Raised(e) == [kind |-> "raise", error |-> e]

\* A subprocess that ran and exited.
Ran(command, r) ==
    [command |-> command, found |-> TRUE, exit_code |-> r.exit_code,
     stdout |-> r.stdout, stderr |-> r.stderr]

\* A subprocess whose program was not found.
NotFound(command) ==
    [command |-> command, found |-> FALSE, exit_code |-> 0, stdout |-> "",
     stderr |-> ""]

----------------------------------------------------------------------------
(* Git.generate_version and Git.check_command_installed *)

DescribeCmd(dir) == <<"git", "-C", dir, "describe", "--dirty">>

DescribeAlwaysCmd(dir) == <<"git", "-C", dir, "describe", "--dirty", "--always">>

\* Git.generate_version: the primary query and, when it exits with 0, the
\* result; a missing git is not a CalledProcessError and leaves the call.
generate_version_describe ==
    /\ cpc = "idle"
    /\ \E sd \in Opt(VersionDirs) :
        LET dir == IF Truthy(sd) THEN sd[1] ELSE Cwd
            r == Describe(tree, FALSE)
        IN
        /\ call' = [op |-> "generate_version", source_dir |-> dir]
        /\ IF ~tree.installed
           THEN /\ queries' = <<NotFound(DescribeCmd(dir))>>
                /\ outcome' = Raised([kind |-> "FileNotFoundError"])
                /\ cpc' = "idle"
           ELSE /\ queries' = <<Ran(DescribeCmd(dir), r)>>
                /\ IF r.exit_code # 0
                   THEN outcome' = NoOutcome /\ cpc' = "fallback"
                   ELSE /\ outcome' = Returned(VersionOf(strip(r.stdout)))
                        /\ cpc' = "idle"
    /\ UNCHANGED <<tree, gitVars>>

\* Git.generate_version: the fallback query.
generate_version_fallback ==
    /\ cpc = "fallback"
    /\ LET r == Describe(tree, TRUE) IN
        /\ queries' = Append(queries, Ran(DescribeAlwaysCmd(call.source_dir), r))
        /\ outcome' =
              IF r.exit_code # 0
              THEN Raised([kind |-> "VCSError", message |-> strip(r.stderr)])
              ELSE Returned(FallbackVersion(r.stdout))
    /\ cpc' = "idle"
    /\ UNCHANGED <<tree, call, gitVars>>

VersionCmd == <<"git", "version">>

\* What Git.version returns or raises.
version(installed, exit_code) ==
    IF ~installed THEN Raised([kind |-> "FileNotFoundError"])
    ELSE IF exit_code # 0
    THEN Raised([kind |-> "CalledProcessError", returncode |-> exit_code,
                 cmd |-> VersionCmd])
    ELSE Returned("git version 2.43.0")

\* check_command_installed with `except Exception`.
InstalledOutcome_CatchAll(v) ==
    IF v.kind = "raise" THEN Returned(FALSE) ELSE Returned(TRUE)

\* Git.check_command_installed, from what Git.version did.
InstalledOutcome(v) ==
    IF v.kind = "raise" /\ v.error.kind = "FileNotFoundError"
    THEN Returned(FALSE)
    ELSE IF v.kind = "raise" THEN v
    ELSE Returned(TRUE)

\* Git.check_command_installed
check_command_installed ==
    /\ cpc = "idle"
    /\ \E e \in ExitCodes :
        /\ call' = [op |-> "check_command_installed"]
        /\ queries' =
              <<IF tree.installed
                THEN Ran(VersionCmd,
                         [exit_code |-> e, stderr |-> "",
                          stdout |-> IF e = 0 THEN "git version 2.43.0\n"
                                     ELSE ""])
                ELSE NotFound(VersionCmd)>>
        /\ outcome' = InstalledOutcome(version(tree.installed, e))
    /\ UNCHANGED <<tree, cpc, gitVars>>

----------------------------------------------------------------------------
(* Paths: str.startswith and os.path.relpath as Git.add uses them. *)

startswith(s, prefix) ==
    Len(prefix) <= Len(s) /\ SubSeq(s, 1, Len(prefix)) = prefix

RECURSIVE find(_, _, _)
\* The first position from i on where s has the character c, or 0.
find(s, c, i) ==
    IF i > Len(s) THEN 0
    ELSE IF Char(s, i) = c THEN i
    ELSE find(s, c, i + 1)

RECURSIVE split(_, _)
\* str.split(sep) for a separator of one character
split(s, sep) ==
    LET i == find(s, sep, 1) IN
    IF i = 0 THEN <<s>>
    ELSE <<SubSeq(s, 1, i - 1)>> \o split(SubSeq(s, i + 1, Len(s)), sep)

RECURSIVE join(_, _)
\* sep.join(parts)
join(sep, parts) ==
    IF parts = << >> THEN ""
    ELSE IF Len(parts) = 1 THEN parts[1]
    ELSE parts[1] \o sep \o join(sep, Tail(parts))

isabs(path) == startswith(path, "/")

\* os.path.join(a, b)
path_join(a, b) ==
    IF isabs(b) THEN b
    ELSE IF a = "" \/ Char(a, Len(a)) = "/" THEN a \o b
    ELSE a \o "/" \o b

RECURSIVE NormComps(_, _, _)
\* The loop of os.path.normpath over the components of the path.
NormComps(comps, new_comps, initial_slashes) ==
    IF comps = << >> THEN new_comps
    ELSE LET comp == Head(comps)
             n == Len(new_comps)
         IN
         IF comp \in {"", "."}
         THEN NormComps(Tail(comps), new_comps, initial_slashes)
         ELSE IF \/ comp # ".."
                 \/ (~initial_slashes /\ n = 0)
                 \/ (n > 0 /\ new_comps[n] = "..")
         THEN NormComps(Tail(comps), Append(new_comps, comp), initial_slashes)
         ELSE IF n > 0
         THEN NormComps(Tail(comps), SubSeq(new_comps, 1, n - 1),
                        initial_slashes)
         ELSE NormComps(Tail(comps), new_comps, initial_slashes)

\* os.path.normpath
normpath(path) ==
    LET joined == join("/", NormComps(split(path, "/"), << >>, isabs(path)))
        result == IF isabs(path) THEN "/" \o joined ELSE joined
    IN IF result = "" THEN "." ELSE result

\* os.path.abspath
abspath(path) ==
    normpath(IF isabs(path) THEN path ELSE path_join(Cwd, path))

\* [x for x in abspath(path).split(sep) if x]
PathList(path) == SelectSeq(split(abspath(path), "/"), LAMBDA x : x # "")

RECURSIVE commonprefix(_, _)
\* len(os.path.commonprefix([a, b])) for two lists of components
commonprefix(a, b) ==
    IF a = << >> \/ b = << >> \/ Head(a) # Head(b) THEN 0
    ELSE 1 + commonprefix(Tail(a), Tail(b))

\* os.path.relpath(path, start)
relpath(path, start) ==
    LET start_list == PathList(start)
        path_list == PathList(path)
        i == commonprefix(start_list, path_list)
        rel_list == [j \in 1..(Len(start_list) - i) |-> ".."]
                    \o SubSeq(path_list, i + 1, Len(path_list))
    IN IF rel_list = << >> THEN "." ELSE join("/", rel_list)

----------------------------------------------------------------------------
(* Git.init, Git.add, Git.commit, Git.push *)

RepoDirs == {"/srv/repo", "repo"}

Files ==
    {"/srv/repo/a.txt", "/srv/repo/sub/a.txt", "/srv/repo2/a.txt",
     "/tmp/a.txt", "a.txt", "repo/a.txt", "repo2/a.txt"}

Messages == {"initial commit", ""}

Authors == {"Jane Doe <jane@example.com>"}

PushRefspecs == {"HEAD:main", "v1.2"}

\* What the failed command had written to its standard output.
Outputs == {"", "nothing to commit, working tree clean\n"}

AuthoringArgs ==
    {a \in [source : Sources, source_dir : RepoDirs, source_tag : {None},
            source_commit : {None}, source_branch : {None},
            source_depth : {None}, silent : {FALSE},
            source_checksum : {None}, source_submodules : {None}] :
        InitError(a) = NoError}

\* Git._run_git_command, from the exit of the command: what it raises, or
\* its return of None.
_run_git_command(command, exit_code, output) ==
    IF exit_code # 0
    THEN Raised([kind |-> "GitCommandError", command |-> command,
                 exit_code |-> exit_code, output |-> output])
    ELSE Returned(None)

\* A wrapper hands its one command to _run_git_command; without a git
\* binary check_output raises FileNotFoundError, which is not caught.
RunGitCommand(command) ==
    IF ~tree.installed
    THEN /\ queries' = <<NotFound(command)>>
         /\ outcome' = Raised([kind |-> "FileNotFoundError"])
    ELSE \E e \in ExitCodes : \E out \in Outputs :
            /\ queries' = <<Ran(command, [exit_code |-> e, stdout |-> out,
                                          stderr |-> ""])>>
            /\ outcome' = _run_git_command(command, e, out)

InitCmd(g) == <<g.command, "-C", g.source_dir, "init">>

\* Git.init
init ==
    /\ pc = "idle" /\ cpc = "idle"
    /\ call' = [op |-> "init"]
    /\ RunGitCommand(InitCmd(git))
    /\ UNCHANGED <<tree, cpc, gitVars>>

\* Git.add: the file as it is passed to git.
AddFile(g, file) ==
    IF startswith(file, g.source_dir) THEN relpath(file, g.source_dir)
    ELSE file

AddCmd(g, file) == <<g.command, "-C", g.source_dir, "add", AddFile(g, file)>>

\* Git.add
add ==
    /\ pc = "idle" /\ cpc = "idle"
    /\ \E file \in Files :
        /\ call' = [op |-> "add", file |-> file]
        /\ RunGitCommand(AddCmd(git, file))
    /\ UNCHANGED <<tree, cpc, gitVars>>

DefaultAuthor == "snapcraft <snapcraft@snapcraft_legacy.local>"

CommitCmd(g, message, author) ==
    <<g.command, "-C", g.source_dir, "commit", "--no-gpg-sign", "--message",
      message, "--author", author>>

\* Git.commit; an author of None is the call without the author argument.
commit ==
    /\ pc = "idle" /\ cpc = "idle"
    /\ \E message \in Messages : \E author \in Opt(Authors) :
        /\ call' = [op |-> "commit", message |-> message, author |-> author]
        /\ RunGitCommand(CommitCmd(git, message,
                                   IF author = None THEN DefaultAuthor
                                   ELSE author[1]))
    /\ UNCHANGED <<tree, cpc, gitVars>>

\* Git.push appending --force whatever `force` is.
PushCmd_AlwaysForce(g, url, rs, force) ==
    <<g.command, "-C", g.source_dir, "push", url, rs, "--force">>

PushCmd(g, url, rs, force) ==
    <<g.command, "-C", g.source_dir, "push", url, rs>>
        \o (IF force THEN <<"--force">> ELSE << >>)

\* Git.push
push ==
    /\ pc = "idle" /\ cpc = "idle"
    /\ \E url \in Sources : \E rs \in PushRefspecs : \E force \in BOOLEAN :
        /\ call' = [op |-> "push", url |-> url, refspec |-> rs,
                    force |-> force]
        /\ RunGitCommand(PushCmd(git, url, rs, force))
    /\ UNCHANGED <<tree, cpc, gitVars>>

----------------------------------------------------------------------------
(* pathlib.Path as src/snapcraft/pack.py uses it.  A path is its string;  *)
(* there are no symbolic links.                                            *)

\* The parts of Path(s) after the root: empty parts and "." are dropped.
Parts(s) == SelectSeq(split(s, "/"), LAMBDA x : x \notin {"", "."})

\* str(Path(...)) of a path with these parts
PathOf(absolute, parts) ==
    IF absolute THEN "/" \o join("/", parts)
    ELSE IF parts = << >> THEN "."
    ELSE join("/", parts)

\* str(Path(s))
Path(s) == PathOf(isabs(s), Parts(s))

\* Path(s).name
PathName(s) ==
    IF Parts(s) = << >> THEN "" ELSE Parts(s)[Len(Parts(s))]

\* Path(s).parent
PathParent(s) ==
    IF Parts(s) = << >> THEN Path(s)
    ELSE PathOf(isabs(s), SubSeq(Parts(s), 1, Len(Parts(s)) - 1))

\* Path(s).resolve()
resolve(s) == abspath(s)

\* Path(s).is_dir()
is_dir(s) == resolve(s) \in fs

\* str.partition(sep)[2] for a separator of one character
AfterPartition(s, sep) ==
    IF find(s, sep, 1) = 0 THEN ""
    ELSE SubSeq(s, find(s, sep, 1) + 1, Len(s))

----------------------------------------------------------------------------
(* src/snapcraft/pack.py *)

BaseDirs == {"/", "/home", "/home/user", Cwd, "/tmp"}

OptionalDirs == {Cwd \o "/out", Cwd \o "/dist"}

Filesystems == {BaseDirs \cup d : d \in SUBSET OptionalDirs}

PackDirectories == {"prime"}

PackOutputs ==
    {"", "out", "out/", "dist/hello.snap", "hello.snap", "/tmp/x.snap",
     "../up.snap", "/tmp", "."}

SnapNames == {"hello"}

SnapVersions == {"1.0"}

SnapTargets == {"amd64"}

Compressions == {"", "xz"}

\* How a run of `snap` can end: the program is not found, or it exits with
\* a code, having written to stderr.
SnapExits ==
    {[found |-> FALSE, exit_code |-> 0, stderr |-> ""],
     [found |-> TRUE, exit_code |-> 0, stderr |-> ""],
     [found |-> TRUE, exit_code |-> 1, stderr |-> ""],
     [found |-> TRUE, exit_code |-> 1,
      stderr |-> "error: cannot read snap.yaml\n"]}

FileNotFoundError == [kind |-> "FileNotFoundError"]

ComponentDirectories == {"prime/component"}

\* The name `snap pack` gives the artifact when it is told none.
SnapdDefaultName == "hello_1.0_amd64.snap"

SnapcraftErrors == {"SnapcraftError", "SnapPackError"}

\* subprocess.CalledProcessError
CalledProcessError(command, returncode, stderr) ==
    [kind |-> "CalledProcessError", cmd |-> command,
     returncode |-> returncode, stderr |-> stderr]

\* subprocess.run of `snap`: the record of the invocation.
RanSnap(command, x, out) ==
    IF x.found
    THEN Ran(command, [exit_code |-> x.exit_code, stdout |-> out,
                       stderr |-> x.stderr])
    ELSE NotFound(command)

VerifyCmd(directory) == <<"snap", "pack", "--check-skeleton", directory>>

\* _verify_snap: what it raises for the failed check.
VerifyError(err) ==
    [kind |-> "SnapcraftError",
     message |-> IF err.stderr # "" THEN "Cannot pack snap: " \o strip(err.stderr)
                 ELSE "Cannot pack snap",
     resolution |-> None,
     cause |-> err]

\* _get_directory
_get_directory(output) ==
    IF Truthy(output)
    THEN IF is_dir(output[1]) THEN resolve(Path(output[1]))
         ELSE resolve(PathParent(output[1]))
    ELSE Cwd

\* _get_filename with the default name tried before the name in `output`.
_get_filename_DefaultFirst(output, name, snap_version, target) ==
    IF name # None /\ snap_version # None /\ target # None
    THEN Some(name[1] \o "_" \o snap_version[1] \o "_" \o target[1] \o ".snap")
    ELSE IF Truthy(output) /\ ~is_dir(output[1])
    THEN Some(PathName(output[1]))
    ELSE None

_get_filename(output, name, snap_version, target) ==
    IF Truthy(output) /\ ~is_dir(output[1])
    THEN Some(PathName(output[1]))
    ELSE IF name # None /\ snap_version # None /\ target # None
    THEN Some(name[1] \o "_" \o snap_version[1] \o "_" \o target[1] \o ".snap")
    ELSE None

\* _pack: the command list.
PackCmd(directory, output_dir, output_file, compression) ==
    <<"snap", "pack">>
    \o (IF Truthy(output_file) THEN <<"--filename", output_file[1]>> ELSE << >>)
    \o (IF Truthy(compression) THEN <<"--compression", compression[1]>>
        ELSE << >>)
    \o <<directory, output_dir>>

\* What `snap pack` prints when it has built the artifact.
Built(output_dir, output_file) ==
    "built: "
    \o path_join(output_dir,
                 IF Truthy(output_file) THEN output_file[1]
                 ELSE SnapdDefaultName)
    \o "\n"

\* _pack: the result, from what the command printed.
PackResult(stdout) == PathName(strip(AfterPartition(stdout, ":")))

\* _pack: the subprocess and what _pack returns or raises for its exit.
_pack(directory, output_dir, output_file, compression, x) ==
    LET command == PackCmd(directory, output_dir, output_file, compression)
        stdout == IF x.exit_code = 0 THEN Built(output_dir, output_file)
                  ELSE ""
    IN
    [query |-> RanSnap(command, x, stdout),
     outcome |->
        IF ~x.found THEN Raised(FileNotFoundError)
        ELSE IF x.exit_code # 0
        THEN Raised([kind |-> "SnapPackError", resolution |-> None,
                     cause |-> CalledProcessError(command, x.exit_code,
                                                  x.stderr)])
        ELSE Returned(PackResult(stdout))]

\* pack_snap: the check of the skeleton.
pack_snap_verify ==
    /\ cpc = "idle"
    /\ \E directory \in PackDirectories, output \in Opt(PackOutputs),
          compression \in Opt(Compressions), name \in Opt(SnapNames),
          snap_version \in Opt(SnapVersions), target \in Opt(SnapTargets),
          x \in SnapExits :
        /\ call' = [op |-> "pack_snap", directory |-> directory,
                    output |-> output, compression |-> compression,
                    name |-> name, version |-> snap_version, target |-> target]
        /\ queries' = <<RanSnap(VerifyCmd(directory), x, "")>>
        /\ IF ~x.found
           THEN outcome' = Raised(FileNotFoundError) /\ cpc' = "idle"
           ELSE IF x.exit_code # 0
           THEN /\ outcome' =
                      Raised(VerifyError(
                          CalledProcessError(VerifyCmd(directory), x.exit_code,
                                             x.stderr)))
                /\ cpc' = "idle"
           ELSE /\ outcome' = NoOutcome
                /\ cpc' = "pack_snap._pack"
    /\ events' = << >>
    /\ UNCHANGED <<tree, fs, environ, gitVars>>

\* pack_snap: the output location and _pack.
pack_snap_pack ==
    /\ cpc = "pack_snap._pack"
    /\ \E x \in SnapExits :
        LET r == _pack(call.directory, _get_directory(call.output),
                       _get_filename(call.output, call.name, call.version,
                                     call.target),
                       call.compression, x)
        IN
        /\ queries' = Append(queries, r.query)
        /\ outcome' = r.outcome
    /\ cpc' = "idle"
    /\ UNCHANGED <<tree, call, hostVars, gitVars>>

RECURSIVE ReprList(_)
\* The items of repr() of a list of str, without the brackets.
ReprList(words) ==
    IF words = << >> THEN ""
    ELSE "'" \o Head(words) \o "'"
         \o (IF Len(words) > 1 THEN ", " ELSE "") \o ReprList(Tail(words))

\* str(err) of a CalledProcessError whose command is a list of str
CalledProcessErrorStr(err) ==
    "Command '[" \o ReprList(err.cmd) \o "]' returned non-zero exit status "
    \o str(err.returncode) \o "."

\* The resolution text of pack_component; the grave accents that the code
\* puts around snapd and latest/edge cannot be written in a string here.
ComponentResolution ==
    "Packing components is experimental and requires snapd "
    \o "to be installed from the latest/edge channel."

\* pack_component, the wrapped function: _pack without a file name; an
\* error of _pack leaves with the resolution set.
pack_component(directory, output_dir, compression, x) ==
    LET r == _pack(directory, output_dir, None, compression, x) IN
    [query |-> r.query,
     outcome |->
        IF r.outcome.kind = "raise" /\ r.outcome.error.kind \in SnapcraftErrors
        THEN Raised([r.outcome.error EXCEPT
                        !.resolution = Some(ComponentResolution)])
        ELSE r.outcome]

\* retry_with_edge_snapd refreshing after whatever the first attempt did.
AfterFirstAttempt_Always(o) == "pack_component.refresh"

\* retry_with_edge_snapd: where the first attempt leaves the call.
AfterFirstAttempt(o) ==
    IF o.kind = "raise" /\ o.error.kind \in SnapcraftErrors
    THEN "pack_component.refresh"
    ELSE "idle"

\* retry_with_edge_snapd: the first attempt.
pack_component_first ==
    /\ cpc = "idle"
    /\ \E directory \in ComponentDirectories,
          compression \in Opt(Compressions), x \in SnapExits :
        LET r == pack_component(directory, Cwd, compression, x) IN
        /\ call' = [op |-> "pack_component", directory |-> directory,
                    output_dir |-> Cwd, compression |-> compression]
        /\ queries' = <<r.query>>
        /\ cpc' = AfterFirstAttempt(r.outcome)
        /\ outcome' = IF cpc' = "idle" THEN r.outcome ELSE NoOutcome
    /\ events' = << >>
    /\ UNCHANGED <<tree, fs, environ, gitVars>>

RefreshCmd == <<"snap", "refresh", "--edge", "snapd">>

\* retry_with_edge_snapd: the refresh of snapd; its output goes to the
\* stream, so the error has no stderr and the details are None.
pack_component_refresh ==
    /\ cpc = "pack_component.refresh"
    /\ \E x \in SnapExits :
        /\ queries' = Append(queries,
                             RanSnap(RefreshCmd, [x EXCEPT !.stderr = ""], ""))
        /\ IF ~x.found
           THEN outcome' = Raised(FileNotFoundError) /\ cpc' = "idle"
           ELSE IF x.exit_code # 0
           THEN /\ outcome' =
                      Raised([kind |-> "SnapcraftError",
                              message |->
                                  CalledProcessErrorStr(
                                      CalledProcessError(RefreshCmd,
                                                         x.exit_code, None)),
                              details |-> None,
                              cause |-> CalledProcessError(RefreshCmd,
                                                           x.exit_code, None)])
                /\ cpc' = "idle"
           ELSE /\ outcome' = NoOutcome
                /\ cpc' = "pack_component.retry"
    /\ UNCHANGED <<tree, call, hostVars, gitVars>>

\* retry_with_edge_snapd: the second attempt, outside every `try`.
pack_component_second ==
    /\ cpc = "pack_component.retry"
    /\ \E x \in SnapExits :
        LET r == pack_component(call.directory, call.output_dir,
                                call.compression, x)
        IN
        /\ queries' = Append(queries, r.query)
        /\ outcome' = r.outcome
    /\ cpc' = "idle"
    /\ UNCHANGED <<tree, call, hostVars, gitVars>>

----------------------------------------------------------------------------
(* snapcraft.snap_config.get_snap_config, as its unit tests                *)
(* (src/tests/unit/test_snap_config.py) fix it.                            *)

Providers == {"lxd", "multipass"}

\* What SnapConfigOptions.as_dict() returns, {} or {"provider": p}, as the
\* set of its items.
SnapConfigDicts == {{}} \cup {{<<"provider", p>>} : p \in Providers}

\* How SnapConfigOptions(...) and its fetch() can end.
ConfigSteps == {"ok", "AttributeError", "SnapCtlError"}

\* SnapConfig.unmarshal for a dictionary with at most a valid provider;
\* SnapConfig() has no provider.
SnapConfig(d) ==
    [provider |-> IF d = {} THEN None
                  ELSE Some((CHOOSE item \in d : item[1] = "provider")[2])]

\* get_snap_config letting an error of fetch() reach the caller.
SnapConfigResult_FetchRaises(from_snap, made, fetched, d) ==
    IF ~from_snap THEN Returned(None)
    ELSE IF made # "ok" THEN Returned(None)
    ELSE IF fetched # "ok" THEN Raised([kind |-> fetched])
    ELSE Returned(Some(SnapConfig(d)))

\* get_snap_config: the result.
SnapConfigResult(from_snap, made, fetched, d) ==
    IF ~from_snap THEN Returned(None)
    ELSE IF made # "ok" THEN Returned(None)
    ELSE IF fetched # "ok" THEN Returned(None)
    ELSE Returned(Some(SnapConfig(d)))

\* get_snap_config: `events` is what it called and how each call ended.
get_snap_config ==
    /\ cpc = "idle"
    /\ \E from_snap \in BOOLEAN, made \in ConfigSteps, fetched \in ConfigSteps,
          d \in SnapConfigDicts :
        /\ events' =
              <<[call |-> "is_snapcraft_running_from_snap",
                 result |-> IF from_snap THEN "True" ELSE "False"]>>
              \o (IF from_snap
                  THEN <<[call |-> "SnapConfigOptions", result |-> made]>>
                  ELSE << >>)
              \o (IF from_snap /\ made = "ok"
                  THEN <<[call |-> "fetch", result |-> fetched]>>
                  ELSE << >>)
              \o (IF from_snap /\ made = "ok" /\ fetched = "ok"
                  THEN <<[call |-> "as_dict", result |-> d]>>
                  ELSE << >>)
        /\ outcome' = SnapConfigResult(from_snap, made, fetched, d)
    /\ call' = [op |-> "get_snap_config"]
    /\ queries' = << >>
    /\ UNCHANGED <<tree, cpc, fs, environ, gitVars>>

----------------------------------------------------------------------------
(* src/snapcraft_legacy/_store.py: the wrappers of StoreClientCLI.  The    *)
(* store answers every request on its own; `events` is the trace of what   *)
(* the running call did.                                                   *)

\* Values of os.environ[ENVIRONMENT_STORE_CREDENTIALS]: absent, empty, set.
Environs == Opt({"", "exported-credentials"})

\* os.getenv(storeapi.constants.ENVIRONMENT_STORE_CREDENTIALS)
getenv == environ

\* requests.codes.unauthorized
unauthorized == 401

StatusCodes == {401, 500}

StoreServerError(status_code) ==
    [kind |-> "StoreServerError", status_code |-> status_code]

\* Names of the keys registered with the account.
KeyNames == {"default", "release"}

\* How a request of a method of storeapi.StoreClient can end: with its
\* result, with StoreServerError, or with another error of the client.
MethodResults ==
    {Returned([account_keys |-> k]) : k \in SUBSET {"default"}}
    \cup {Raised(StoreServerError(c)) : c \in StatusCodes}
    \cup {Raised([kind |-> "NetworkError"])}

\* The methods of StoreClientCLI under _login_wrapper alone.
LoginWrapped ==
    {"get_metrics", "get_snap_releases", "get_account_information", "register"}

\* How login(store_client=self) can end.
LoginResults ==
    {Returned("credentials"),
     Raised([kind |-> "NeedTermsSignedError"]),
     Raised(StoreServerError(401))}

EnvironmentErrorMessage ==
    "Provided credentials are no longer valid for the Snap Store. "
    \o "Regenerate them and try again."

\* login_decorator: the branch taken for the result of the first call of
\* the method: the `if`, the `elif` (whose test is the test of the `if`)
\* and the `else` of the handler of StoreServerError.
LoginBranch(r, credentials) ==
    IF r.kind # "raise" \/ r.error.kind # "StoreServerError" THEN "done"
    ELSE IF r.error.status_code = unauthorized /\ ~Truthy(credentials)
    THEN "relogin"
    ELSE IF r.error.status_code = unauthorized /\ ~Truthy(credentials)
    THEN "environment_error"
    ELSE "done"

\* The call of the wrapped method ends: create_key goes on with what its
\* StoreClientCLI().get_account_information() did.
Finish(result) ==
    /\ outcome' = result
    /\ cpc' = IF call.op = "create_key" THEN "create_key.enabled_names"
              ELSE "idle"

MethodEvent(name, result) == [ev |-> "method", name |-> name, result |-> result]

\* login_decorator: the first call of the method, and the handler's branch.
login_decorator_call ==
    /\ cpc \in {"idle", "create_key.account"}
    /\ \E method \in LoginWrapped, r \in MethodResults :
        /\ cpc = "create_key.account" => method = "get_account_information"
        /\ call' = IF cpc = "idle"
                   THEN [op |-> "login_decorator", method |-> method]
                   ELSE call
        /\ events' = (IF cpc = "idle" THEN << >> ELSE events)
                     \o <<MethodEvent(method, r)>>
        /\ queries' = IF cpc = "idle" THEN << >> ELSE queries
        /\ CASE LoginBranch(r, getenv) = "done" ->
                    /\ outcome' = r
                    /\ cpc' = IF cpc = "idle" THEN "idle"
                              ELSE "create_key.enabled_names"
             [] LoginBranch(r, getenv) = "relogin" ->
                    /\ outcome' = NoOutcome
                    /\ cpc' = "login_decorator.logout"
             [] LoginBranch(r, getenv) = "environment_error" ->
                    /\ outcome' =
                          Raised([kind |-> "SnapcraftEnvironmentError",
                                  message |-> EnvironmentErrorMessage,
                                  cause |-> r.error])
                    /\ cpc' = IF cpc = "idle" THEN "idle"
                              ELSE "create_key.enabled_names"
    /\ UNCHANGED <<tree, fs, environ, gitVars>>

\* login_decorator: self.logout() and the notice.
login_decorator_logout ==
    /\ cpc = "login_decorator.logout"
    /\ events' = events \o <<[ev |-> "logout"],
                             [ev |-> "echo.info",
                              text |-> "You are required to login before "
                                       \o "continuing."]>>
    /\ cpc' = "login_decorator.login"
    /\ UNCHANGED <<tree, call, queries, outcome, fs, environ, gitVars>>

\* login_decorator: login(store_client=self), which prompts for the e-mail
\* address and the password; its error leaves the call.
login_decorator_login ==
    /\ cpc = "login_decorator.login"
    /\ \E r \in LoginResults :
        /\ events' = Append(events, [ev |-> "login", result |-> r])
        /\ IF r.kind = "raise" THEN Finish(r)
           ELSE cpc' = "login_decorator.retry" /\ UNCHANGED outcome
    /\ UNCHANGED <<tree, call, queries, fs, environ, gitVars>>

\* login_decorator retrying under the handler again.
login_decorator_retry_Handled ==
    /\ cpc = "login_decorator.retry"
    /\ \E r \in MethodResults :
        /\ events' = Append(events, MethodEvent(call.method, r))
        /\ IF LoginBranch(r, getenv) = "relogin"
           THEN outcome' = NoOutcome /\ cpc' = "login_decorator.logout"
           ELSE Finish(r)
    /\ UNCHANGED <<tree, call, queries, fs, environ, gitVars>>

\* login_decorator: the second call of the method, inside the handler.
login_decorator_retry ==
    /\ cpc = "login_decorator.retry"
    /\ \E r \in MethodResults :
        /\ events' = Append(events, MethodEvent(call.method, r))
        /\ Finish(r)
    /\ UNCHANGED <<tree, call, queries, fs, environ, gitVars>>

\* The names a key can be created under; create_key(None) and
\* create_key("") stand for "default".
CreateKeyNames == Opt(KeyNames \cup {""})

KeysCmd == <<"snap", "keys", "--json">>

CreateKeyCmd(name) == <<"snap", "create-key", name>>

Subprocess(command) == [ev |-> "subprocess", command |-> command]

\* create_key up to the account request: the local keys are listed, and a
\* local key of the name ends the call.
create_key_keys ==
    /\ cpc = "idle"
    /\ \E arg \in CreateKeyNames, keys \in SUBSET KeyNames :
        LET name == IF Truthy(arg) THEN arg[1] ELSE "default" IN
        /\ call' = [op |-> "create_key", name |-> name, keys |-> keys,
                    method |-> "get_account_information"]
        /\ events' = <<Subprocess(KeysCmd)>>
        /\ IF name \in keys
           THEN /\ outcome' = Raised([kind |-> "KeyAlreadyExistsError",
                                      name |-> name])
                /\ cpc' = "idle"
           ELSE /\ outcome' = NoOutcome
                /\ cpc' = "create_key.account"
    /\ queries' = << >>
    /\ UNCHANGED <<tree, fs, environ, gitVars>>

\* create_key from the result of StoreClientCLI().get_account_information():
\* the names registered with the account, empty on a 401, then
\* `snap create-key`.
create_key_enabled_names ==
    /\ cpc = "create_key.enabled_names"
    /\ LET failed == outcome.kind = "raise"
           is401 == /\ failed
                    /\ outcome.error.kind = "StoreServerError"
                    /\ outcome.error.status_code = 401
           enabled_names == IF failed THEN {} ELSE outcome.value.account_keys
       IN IF failed /\ ~is401
          THEN UNCHANGED <<outcome, events>>
          ELSE IF call.name \in enabled_names
          THEN /\ outcome' = Raised([kind |-> "KeyAlreadyRegisteredError",
                                     name |-> call.name])
               /\ UNCHANGED events
          ELSE /\ events' = Append(events, Subprocess(CreateKeyCmd(call.name)))
               /\ \E returncode \in {0, 1} :
                    outcome' =
                        IF returncode = 0 THEN Returned(None)
                        ELSE Raised(CalledProcessError(CreateKeyCmd(call.name),
                                                       returncode, ""))
    /\ cpc' = "idle"
    /\ UNCHANGED <<tree, call, queries, fs, environ, gitVars>>

\* storeapi.constants.MISSING_AGREEMENT and MISSING_NAMESPACE, the texts of
\* the store's two errors about the developer.
MISSING_AGREEMENT == "Developer has not signed agreement."

MISSING_NAMESPACE == "Developer profile is missing short namespace."

\* Python's `sub in s` on strings.
contains(s, sub) ==
    \E i \in 1..(Len(s) - Len(sub) + 1) :
        SubSeq(s, i, i + Len(sub) - 1) = sub

\* The texts StoreAccountInformationError.error can hold.
AccountErrors ==
    {MISSING_AGREEMENT, MISSING_NAMESPACE,
     "Error: " \o MISSING_NAMESPACE, "Account is suspended."}

StoreAccountInformationError(error) ==
    [kind |-> "StoreAccountInformationError", error |-> error]

\* The message is the name of the text in storeapi.constants.
NeedTermsSignedError(message) ==
    [kind |-> "NeedTermsSignedError", message |-> message]

\* How store.get_account_information() can end; the store answers every
\* request on its own.
AccountResults ==
    {Returned("account")}
    \cup {Raised(StoreAccountInformationError(e)) : e \in AccountErrors}
    \cup {Raised(StoreServerError(500))}

\* What the developer types at the prompt.
Choices == {"y", "Y", "n", ""}

AccountRequest(result) == [ev |-> "get_account_information", result |-> result]

IsAccountError(r) ==
    r.kind = "raise" /\ r.error.kind = "StoreAccountInformationError"

\* _check_dev_agreement_and_namespace_statuses: the request for the
\* agreement's status, with the prompt and the signing.
check_dev_agreement ==
    /\ cpc = "idle"
    /\ call' = [op |-> "_check_dev_agreement_and_namespace_statuses"]
    /\ queries' = << >>
    /\ \E r \in AccountResults :
        \/ /\ r.kind = "raise" /\ ~IsAccountError(r)
           /\ events' = <<AccountRequest(r)>>
           /\ outcome' = r
           /\ cpc' = "idle"
        \/ /\ IsAccountError(r) /\ MISSING_AGREEMENT = r.error.error
           /\ \E choice \in Choices :
                IF choice \in {"y", "Y"}
                THEN \E signed \in BOOLEAN :
                     /\ events' = <<AccountRequest(r),
                                    [ev |-> "echo.prompt", choice |-> choice],
                                    [ev |-> "sign_developer_agreement",
                                     signed |-> signed]>>
                     /\ IF signed
                        THEN outcome' = NoOutcome /\ cpc' = "check.namespace"
                        ELSE /\ outcome' = Raised(NeedTermsSignedError(
                                                      "AGREEMENT_SIGN_ERROR"))
                             /\ cpc' = "idle"
                ELSE /\ events' = <<AccountRequest(r),
                                    [ev |-> "echo.prompt", choice |-> choice]>>
                     /\ outcome' = Raised(NeedTermsSignedError(
                                              "AGREEMENT_ERROR"))
                     /\ cpc' = "idle"
        \/ /\ \/ r.kind = "return"
              \/ IsAccountError(r) /\ MISSING_AGREEMENT # r.error.error
           /\ events' = <<AccountRequest(r)>>
           /\ outcome' = NoOutcome
           /\ cpc' = "check.namespace"
    /\ UNCHANGED <<tree, fs, environ, gitVars>>

\* _check_dev_agreement_and_namespace_statuses: the request for the
\* namespace's status.
check_namespace ==
    /\ cpc = "check.namespace"
    /\ \E r \in AccountResults :
        /\ events' = Append(events, AccountRequest(r))
        /\ outcome' =
              IF r.kind = "return" THEN Returned(None)
              ELSE IF IsAccountError(r)
                      /\ contains(r.error.error, MISSING_NAMESPACE)
              THEN Raised(NeedTermsSignedError("NAMESPACE_ERROR"))
              ELSE r
    /\ cpc' = "idle"
    /\ UNCHANGED <<tree, call, queries, fs, environ, gitVars>>

\* The methods of StoreClientCLI under _register_wrapper.
RegisterWrapped == {"upload_precheck", "upload_metadata"}

StoreSnapNames == {"hello"}

\* The codes a StoreUploadError can list.
ErrorLists ==
    {<< >>, <<"resource-not-found">>, <<"invalid-field">>,
     <<"invalid-field", "resource-not-found">>}

StoreUploadError(error_list) ==
    [kind |-> "StoreUploadError", error_list |-> error_list]

\* Python's `x in list`.
InList(x, l) == \E i \in 1..Len(l) : l[i] = x

\* How an upload request can end.
UploadResults ==
    {Returned("ok")}
    \cup {Raised(StoreUploadError(l)) : l \in ErrorLists}
    \cup {Raised(StoreServerError(500))}

\* How self.register(snap_name=snap_name) can end.
RegisterResults ==
    {Returned(None), Raised([kind |-> "StoreRegistrationError"])}

\* register_decorator registering after any StoreUploadError.
NotRegistered_AnyUploadError(r) ==
    r.kind = "raise" /\ r.error.kind = "StoreUploadError"

\* register_decorator: the call failed for a snap that is not registered.
NotRegistered(r) ==
    /\ r.kind = "raise"
    /\ r.error.kind = "StoreUploadError"
    /\ InList("resource-not-found", r.error.error_list)

\* register_decorator: the first call of the method, and the notice and
\* the question when the snap is not registered.
register_decorator_call ==
    /\ cpc = "idle"
    /\ \E method \in RegisterWrapped, snap_name \in StoreSnapNames,
          r \in UploadResults :
        /\ call' = [op |-> "register_decorator", method |-> method,
                    snap_name |-> snap_name]
        /\ IF NotRegistered(r)
           THEN \E answer \in BOOLEAN :
                /\ events' =
                     <<MethodEvent(method, r),
                       [ev |-> "echo.wrapped",
                        text |-> "You are required to register this snap "
                                 \o "before continuing. Refer to 'snapcraft "
                                 \o "help register' for more options."],
                       [ev |-> "echo.confirm",
                        text |-> "Would you like to register '" \o snap_name
                                 \o "' with the Snap Store?",
                        answer |-> answer]>>
                /\ IF answer
                   THEN /\ outcome' = NoOutcome
                        /\ cpc' = "register_decorator.register"
                   ELSE outcome' = r /\ cpc' = "idle"
           ELSE /\ events' = <<MethodEvent(method, r)>>
                /\ outcome' = r
                /\ cpc' = "idle"
    /\ queries' = << >>
    /\ UNCHANGED <<tree, fs, environ, gitVars>>

\* register_decorator: self.register(snap_name=snap_name).
register_decorator_register ==
    /\ cpc = "register_decorator.register"
    /\ \E r \in RegisterResults :
        /\ events' = Append(events, [ev |-> "register",
                                     snap_name |-> call.snap_name,
                                     result |-> r])
        /\ IF r.kind = "raise"
           THEN outcome' = r /\ cpc' = "idle"
           ELSE cpc' = "register_decorator.retry" /\ UNCHANGED outcome
    /\ UNCHANGED <<tree, call, queries, fs, environ, gitVars>>

\* register_decorator: the second call of the method, inside the handler.
register_decorator_retry ==
    /\ cpc = "register_decorator.retry"
    /\ \E r \in UploadResults :
        /\ events' = Append(events, MethodEvent(call.method, r))
        /\ outcome' = r
    /\ cpc' = "idle"
    /\ UNCHANGED <<tree, call, queries, fs, environ, gitVars>>

\* register_key(name): the key asked for, if any.
RegisterKeyNames == Opt(KeyNames)

\* What register_key did, with the credentials variable as it was then.
Observed(ev, result) == [ev |-> ev, result |-> result, environ |-> environ]

\* wrapped_env: the variable is read and, when it holds a value, deleted.
wrapped_env_enter ==
    /\ cpc = "idle"
    /\ \E name \in RegisterKeyNames :
        call' = [op |-> "register_key", name |-> name, credentials |-> getenv]
    /\ environ' = IF Truthy(getenv) THEN None ELSE environ
    /\ events' = << >>
    /\ queries' = << >>
    /\ outcome' = NoOutcome
    /\ cpc' = "register_key.key"
    /\ UNCHANGED <<tree, fs, gitVars>>

\* register_key: _maybe_prompt_for_key(name).
register_key_key ==
    /\ cpc = "register_key.key"
    /\ \E keys \in SUBSET KeyNames :
        LET usable == IF call.name = None THEN keys
                      ELSE keys \cap {call.name[1]}
            error == IF call.name # None
                     THEN [kind |-> "NoSuchKeyError", name |-> call.name[1]]
                     ELSE [kind |-> "NoKeysError"]
        IN IF usable = {}
           THEN /\ events' = Append(events, Observed("_maybe_prompt_for_key",
                                                     Raised(error)))
                /\ outcome' = Raised(error)
                /\ cpc' = "wrapped_env.finally"
           ELSE /\ \E key \in usable :
                    events' = Append(events,
                                     Observed("_maybe_prompt_for_key",
                                              Returned(key)))
                /\ cpc' = "register_key.login"
                /\ UNCHANGED outcome
    /\ UNCHANGED <<tree, call, queries, fs, environ, gitVars>>

\* register_key: login(store_client=store_client, acls=..., ttl=...).
register_key_login ==
    /\ cpc = "register_key.login"
    /\ \E r \in LoginResults :
        /\ events' = Append(events, Observed("login", r))
        /\ IF r.kind = "raise"
           THEN outcome' = r /\ cpc' = "wrapped_env.finally"
           ELSE cpc' = "register_key.register" /\ UNCHANGED outcome
    /\ UNCHANGED <<tree, call, queries, fs, environ, gitVars>>

\* How the rest of register_key can end: the account request, the export
\* of the key and the request that registers it.
RegisterKeyResults ==
    {Returned(None), Raised(StoreServerError(500)),
     Raised([kind |-> "StoreKeyRegistrationError"])}

\* register_key: get_account_information, _export_key and
\* store_client.register_key.
register_key_register ==
    /\ cpc = "register_key.register"
    /\ \E r \in RegisterKeyResults :
        /\ events' = Append(events, Observed("register_key", r))
        /\ outcome' = r
    /\ cpc' = "wrapped_env.finally"
    /\ UNCHANGED <<tree, call, queries, fs, environ, gitVars>>

\* wrapped_env leaving the variable as the function left it.
wrapped_env_finally_NoRestore ==
    /\ cpc = "wrapped_env.finally"
    /\ cpc' = "idle"
    /\ UNCHANGED <<tree, call, queries, outcome, fs, environ, events, gitVars>>

\* wrapped_env: the `finally`, which puts the value back.
wrapped_env_finally ==
    /\ cpc = "wrapped_env.finally"
    /\ environ' = IF Truthy(call.credentials) THEN call.credentials
                  ELSE environ
    /\ cpc' = "idle"
    /\ UNCHANGED <<tree, call, queries, outcome, fs, events, gitVars>>

----------------------------------------------------------------------------

\* No class method or wrapper has been called.
NoCalls ==
    /\ cpc = "idle"
    /\ call = NoCall
    /\ queries = << >>
    /\ outcome = NoOutcome

\* Nothing of the host is read: no directory, no credentials variable.
NoHost ==
    /\ fs = {}
    /\ environ = None
    /\ events = << >>

\* No Git object has been constructed.
NoObject ==
    /\ args = NoArgs
    /\ git = NoGit
    /\ raised = NoError
    /\ dotGit = FALSE
    /\ remoteDefault = "master"
    /\ pc = "new"
    /\ calledWithDotGit = FALSE
    /\ refspec = ""
    /\ reset_spec = ""
    /\ issued = << >>

Init ==
    /\ args = NoArgs
    /\ git = NoGit
    /\ raised = NoError
    /\ dotGit \in BOOLEAN
    /\ remoteDefault \in DefaultBranches
    /\ pc = "new"
    /\ calledWithDotGit = FALSE
    /\ refspec = ""
    /\ reset_spec = ""
    /\ issued = << >>
    /\ NoCalls
    /\ tree = NotInstalled
    /\ NoHost

Next ==
    \/ __init__ /\ UNCHANGED <<callVars, hostVars>>
    \/ pull /\ UNCHANGED <<callVars, hostVars>>
    \/ _pull_existing_refspec /\ UNCHANGED <<callVars, hostVars>>
    \/ _pull_existing_fetch /\ UNCHANGED <<callVars, hostVars>>
    \/ _pull_existing_reset /\ UNCHANGED <<callVars, hostVars>>
    \/ _pull_existing_submodule /\ UNCHANGED <<callVars, hostVars>>
    \/ _clone_new_clone /\ UNCHANGED <<callVars, hostVars>>
    \/ _clone_new_fetch /\ UNCHANGED <<callVars, hostVars>>
    \/ _clone_new_checkout /\ UNCHANGED <<callVars, hostVars>>
    \/ _get_source_details /\ UNCHANGED <<callVars, hostVars>>
    \/ RemoveMetadata /\ UNCHANGED <<callVars, hostVars>>

Spec == Init /\ [][Next]_vars

\* The class methods, called on a working tree, with no Git object.
InitClass ==
    /\ NoObject
    /\ NoCalls
    /\ tree \in Trees
    /\ NoHost

NextClass ==
    \/ generate_version_describe /\ UNCHANGED hostVars
    \/ generate_version_fallback /\ UNCHANGED hostVars
    \/ check_command_installed /\ UNCHANGED hostVars

SpecClass == InitClass /\ [][NextClass]_vars

\* The wrappers, called on a constructed Git object that has not pulled.
InitAuthoring ==
    /\ \E a \in AuthoringArgs :
        /\ args = a
        /\ git = NewGit(a)
    /\ raised = NoError
    /\ dotGit = FALSE
    /\ remoteDefault = "master"
    /\ pc = "idle"
    /\ calledWithDotGit = FALSE
    /\ refspec = ""
    /\ reset_spec = ""
    /\ issued = << >>
    /\ NoCalls
    /\ tree \in {NotInstalled, [NotInstalled EXCEPT !.installed = TRUE]}
    /\ NoHost

NextAuthoring ==
    \/ init /\ UNCHANGED hostVars
    \/ add /\ UNCHANGED hostVars
    \/ commit /\ UNCHANGED hostVars
    \/ push /\ UNCHANGED hostVars

SpecAuthoring == InitAuthoring /\ [][NextAuthoring]_vars

\* Packing, with no Git object; the host has some directories.
InitPack ==
    /\ NoObject
    /\ NoCalls
    /\ tree = NotInstalled
    /\ fs \in Filesystems
    /\ environ = None
    /\ events = << >>

NextPack ==
    \/ pack_snap_verify
    \/ pack_snap_pack
    \/ pack_component_first
    \/ pack_component_refresh
    \/ pack_component_second
    \/ get_snap_config

SpecPack == InitPack /\ [][NextPack]_vars

\* The store wrappers, with no Git object; the credentials variable is
\* absent, empty or set.
InitStore ==
    /\ NoObject
    /\ NoCalls
    /\ tree = NotInstalled
    /\ fs = {}
    /\ environ \in Environs
    /\ events = << >>

NextStore ==
    \/ login_decorator_call
    \/ login_decorator_logout
    \/ login_decorator_login
    \/ login_decorator_retry
    \/ create_key_keys
    \/ create_key_enabled_names
    \/ check_dev_agreement
    \/ check_namespace
    \/ register_decorator_call
    \/ register_decorator_register
    \/ register_decorator_retry
    \/ wrapped_env_enter
    \/ register_key_key
    \/ register_key_login
    \/ register_key_register
    \/ wrapped_env_finally

SpecStore == InitStore /\ [][NextStore]_vars

----------------------------------------------------------------------------
(* Reading the log of invocations. *)

SelectorFields == {"source_tag", "source_branch", "source_commit"}

\* The number of ref selectors given (non-empty) in a constructor call.
SelectorsSet(a) == Cardinality({f \in SelectorFields : Truthy(a[f])})

\* The git subcommand of a command list.
Kind(c) ==
    IF Len(c) >= 2 /\ c[2] = "clone" THEN "clone"
    ELSE IF Len(c) >= 5 /\ c[2] = "-C"
    THEN CASE c[4] = "fetch" /\ c[5] = "origin" -> "fetch origin"
           [] c[4] = "fetch" /\ c[5] = "--prune" -> "fetch --prune"
           [] c[4] = "reset" /\ c[5] = "--hard" -> "reset --hard"
           [] c[4] = "submodule" /\ c[5] = "update" -> "submodule update"
           [] c[4] = "checkout" -> "checkout"
           [] c[4] = "rev-parse" -> "rev-parse"
           [] OTHER -> "other"
    ELSE "other"

Kinds(log) == [i \in 1..Len(log) |-> Kind(log[i].command)]

NotRevParse(r) == Kind(r.command) # "rev-parse"

\* The invocations of the chosen sequence (_pull_existing or _clone_new): the
\* log without the rev-parse query of _get_source_details.
PathIssued == SelectSeq(issued, NotRevParse)

IsPrefix(s, t) == Len(s) <= Len(t) /\ \A i \in 1..Len(s) : s[i] = t[i]

ClonePathKinds == {"clone", "fetch origin", "checkout"}

UpdatePathKinds ==
    {"fetch origin", "fetch --prune", "reset --hard", "submodule update"}

\* _pull_existing has resolved its refspec in the current or last pull.
UpdateResolved ==
    /\ pc \notin {"new", "no_object", "_pull_existing"}
    /\ calledWithDotGit

\* Every word by which a git command reaches into submodules.
SubmoduleWords ==
    {"--recursive", "--recurse-submodules", "--recurse-submodules=yes",
     "submodule"}
    \cup {"--recursive=" \o n : n \in SubmoduleNames}
    \cup {"--recurse-submodules=" \o n : n \in SubmoduleNames}

AffectsSubmodules(c) == Range(c) \cap SubmoduleWords # {}

\* The submodules a command names, as arguments or as selectors.
NamedIn(c) ==
    {n \in SubmoduleNames :
        n \in Range(c) \/ ("--recursive=" \o n) \in Range(c)
        \/ ("--recurse-submodules=" \o n) \in Range(c)}

IsRecursiveSelector(w) == w \in {"--recursive=" \o n : n \in SubmoduleNames}

----------------------------------------------------------------------------
(* C1: a constructor call with two or more of source_tag, source_branch,   *)
(* source_commit set fails with SnapcraftSourceIncompatibleOptionsError    *)
(* and leaves no Git object.                                               *)
C1_ConflictingSelectorsRejected ==
    (args # NoArgs /\ SelectorsSet(args) >= 2) =>
        /\ raised.kind = "SnapcraftSourceIncompatibleOptionsError"
        /\ git = NoGit
        /\ pc = "no_object"

C1_Witness ==
    /\ args # NoArgs
    /\ SelectorsSet(args) = 3
    /\ raised.kind = "SnapcraftSourceIncompatibleOptionsError"
    /\ git = NoGit

(* C2 as stated: a constructor call with a source_checksum fails with      *)
(* SnapcraftSourceInvalidOptionError whatever the ref selectors are.       *)
C2_ChecksumAlwaysInvalidOption ==
    (args # NoArgs /\ Truthy(args.source_checksum)) =>
        raised.kind = "SnapcraftSourceInvalidOptionError"

(* C2 as amended: a constructor call with a non-empty source_checksum      *)
(* always fails and leaves no Git object; the error is                     *)
(* SnapcraftSourceInvalidOptionError when at most one ref selector is set  *)
(* and SnapcraftSourceIncompatibleOptionsError when two or more are.       *)
C2_ChecksumRejected ==
    (args # NoArgs /\ Truthy(args.source_checksum)) =>
        /\ git = NoGit
        /\ pc = "no_object"
        /\ raised.kind = IF SelectorsSet(args) >= 2
                         THEN "SnapcraftSourceIncompatibleOptionsError"
                         ELSE "SnapcraftSourceInvalidOptionError"
        /\ SelectorsSet(args) < 2 => raised.options = <<"source-checksum">>

C2_Witness ==
    /\ args # NoArgs
    /\ Truthy(args.source_checksum)
    /\ SelectorsSet(args) = 1
    /\ raised.kind = "SnapcraftSourceInvalidOptionError"
    /\ git = NoGit

(* C3: a pull called without <source_dir>/.git issues commands of the      *)
(* clone sequence only (clone, fetch origin <commit>, checkout), a pull    *)
(* called with it commands of the update sequence only (fetch origin       *)
(* <commit>, fetch --prune, reset --hard, submodule update); the first     *)
(* command is the clone in the one case and never a clone in the other.    *)
C3_PathFollowsMetadata ==
    /\ \A i \in 1..Len(PathIssued) :
         Kind(PathIssued[i].command) \in
            (IF calledWithDotGit THEN UpdatePathKinds ELSE ClonePathKinds)
    /\ (PathIssued # << >> /\ ~calledWithDotGit) =>
            Kind(PathIssued[1].command) = "clone"
    /\ (pc \in {"_clone_new", "fetch_origin_commit", "checkout"}) =>
            ~calledWithDotGit
    /\ (pc \in {"_pull_existing", "fetch_prune", "reset", "submodule_update"})
            => calledWithDotGit

C3_Witness ==
    /\ ~calledWithDotGit
    /\ pc = "_get_source_details"
    /\ Kinds(issued) = <<"clone", "fetch origin", "checkout">>

(* C4: the update sequence issues, in this order, fetch origin <commit>    *)
(* (only with source_commit as the selector), fetch --prune, reset --hard  *)
(* and submodule update (only with submodules in scope): the log is always *)
(* a prefix of that list, and the whole of it when the sequence returns.   *)
C4_ExpectedUpdateKinds ==
    (IF Truthy(git.source_commit) THEN <<"fetch origin">> ELSE << >>)
    \o <<"fetch --prune", "reset --hard">>
    \o (IF git.source_submodules # Some(<< >>) THEN <<"submodule update">>
        ELSE << >>)

C4_UpdateOrder ==
    (git # NoGit /\ calledWithDotGit) =>
        /\ IsPrefix(Kinds(PathIssued), C4_ExpectedUpdateKinds)
        /\ (pc = "_get_source_details") =>
              Kinds(PathIssued) = C4_ExpectedUpdateKinds

C4_Witness ==
    /\ calledWithDotGit
    /\ pc = "_get_source_details"
    /\ Kinds(issued) = <<"fetch origin", "fetch --prune", "reset --hard",
                         "submodule update">>

(* C5: the update sequence resolves the refspec as refs/heads/<branch> if  *)
(* source_branch is set, else refs/tags/<tag> if source_tag is set, else   *)
(* the commit id if source_commit is set, else HEAD; fetch origin <commit> *)
(* is issued, as the first command, exactly when the commit id is taken.   *)
C5_CommitTaken ==
    /\ ~Truthy(git.source_branch)
    /\ ~Truthy(git.source_tag)
    /\ Truthy(git.source_commit)

C5_RefspecPrecedence ==
    (git # NoGit /\ UpdateResolved) =>
        /\ Truthy(git.source_branch) =>
              refspec = "refs/heads/" \o git.source_branch[1]
        /\ (~Truthy(git.source_branch) /\ Truthy(git.source_tag)) =>
              refspec = "refs/tags/" \o git.source_tag[1]
        /\ C5_CommitTaken => refspec = git.source_commit[1]
        /\ (\A f \in SelectorFields : ~Truthy(git[f])) => refspec = "HEAD"
        /\ C5_CommitTaken <=>
              \E i \in 1..Len(issued) : Kind(issued[i].command) = "fetch origin"
        /\ C5_CommitTaken =>
              issued[1].command = <<"git", "-C", git.source_dir, "fetch",
                                    "origin", git.source_commit[1]>>

C5_Witness ==
    /\ git # NoGit
    /\ UpdateResolved
    /\ pc = "fetch_prune"
    /\ refspec = "abc1234"
    /\ Kinds(issued) = <<"fetch origin">>

(* C6: the hard reset of the update sequence targets the resolved refspec, *)
(* and with the refspec HEAD the tracking ref of the remote's default      *)
(* branch, whatever its name.                                              *)
C6_ResetTargetsDefaultBranch ==
    (git # NoGit /\ UpdateResolved) =>
        \A i \in 1..Len(issued) :
            Kind(issued[i].command) = "reset --hard" =>
                issued[i].command[6] =
                    IF refspec # "HEAD" THEN refspec
                    ELSE "origin/" \o remoteDefault

(* C7: with source_submodules an empty list no command of pull reaches     *)
(* into submodules: no --recurse-submodules on the fetch, no submodule     *)
(* update, no --recursive of any form on the clone.                        *)
C7_EmptyListTouchesNoSubmodule ==
    (git # NoGit /\ git.source_submodules = Some(<< >>)) =>
        \A i \in 1..Len(issued) : ~AffectsSubmodules(issued[i].command)

C7_Witness ==
    /\ git # NoGit
    /\ git.source_submodules = Some(<< >>)
    /\ calledWithDotGit
    /\ pc = "_get_source_details"
    /\ Kinds(issued) = <<"fetch --prune", "reset --hard">>

(* C8 as stated: with source_submodules a non-empty list every command of  *)
(* pull that reaches into submodules names exactly the listed submodules   *)
(* (and the clone carries no bare --recursive).                            *)
C8_EveryCommandNamesTheList ==
    (git # NoGit /\ git.source_submodules # None
     /\ git.source_submodules # Some(<< >>)) =>
        \A i \in 1..Len(issued) :
            LET c == issued[i].command IN
            AffectsSubmodules(c) =>
                /\ Kind(c) = "clone" => "--recursive" \notin Range(c)
                /\ NamedIn(c) = Range(git.source_submodules[1])

(* C8 as amended: with source_submodules a non-empty list the clone        *)
(* carries one --recursive=<name> per listed name, in order, and no bare   *)
(* --recursive, and the submodule update lists exactly those names; the    *)
(* fetch of the update sequence carries --recurse-submodules=yes and names *)
(* no submodule.                                                           *)
C8_CloneAndUpdateNameTheList ==
    (git # NoGit /\ git.source_submodules # None
     /\ git.source_submodules # Some(<< >>)) =>
        \A i \in 1..Len(issued) :
            LET c == issued[i].command
                names == git.source_submodules[1]
            IN
            /\ AffectsSubmodules(c) =>
                  Kind(c) \in {"clone", "fetch --prune", "submodule update"}
            /\ Kind(c) = "clone" =>
                  /\ "--recursive" \notin Range(c)
                  /\ SelectSeq(c, IsRecursiveSelector) =
                        [j \in 1..Len(names) |-> "--recursive=" \o names[j]]
            /\ Kind(c) = "submodule update" =>
                  c = <<"git", "-C", git.source_dir, "submodule", "update",
                        "--recursive", "--force">> \o names
            /\ Kind(c) = "fetch --prune" =>
                  /\ c = <<"git", "-C", git.source_dir, "fetch", "--prune",
                           "--recurse-submodules=yes">>
                  /\ NamedIn(c) = {}

C8_Witness ==
    /\ git # NoGit
    /\ git.source_submodules = Some(<<"libfoo", "libbar">>)
    /\ calledWithDotGit
    /\ pc = "_get_source_details"
    /\ Kinds(issued) = <<"fetch --prune", "reset --hard", "submodule update">>

C10_NoRepeat ==
    /\ \A i, j \in 1..Len(issued) :
         issued[i].command = issued[j].command => i = j
    /\ \A i \in 1..Len(issued) :
         issued[i].exit_code # 0 => (i = Len(issued) /\ pc = "idle")

C10_Step ==
    /\ raised' # NoError => git' = git
    /\ raised # NoError => (issued' = issued \/ (pc = "idle" /\ pc' # "idle"))
    /\ git' # git =>
         \/ pc = "new"
         \/ pc = "_get_source_details" /\ pc' = "idle" /\ raised' = NoError

C10_NoRetry == []C10_NoRepeat /\ [][C10_Step]_vars

C10_Witness ==
    /\ pc = "idle"
    /\ calledWithDotGit
    /\ raised.kind = "SourceCommandError"
    /\ Kinds(issued) = <<"fetch --prune", "reset --hard", "submodule update">>
    /\ git.source_details # None

(* C11: on the clone sequence with source_commit set the clone carries no  *)
(* --branch and is followed by fetch origin <commit> and then checkout     *)
(* <commit>; with source_commit not set the clone is the only command.     *)
C11_CloneThenPinCommit ==
    (git # NoGit /\ ~calledWithDotGit) =>
        /\ Truthy(git.source_commit) =>
              /\ IsPrefix(Kinds(PathIssued),
                          <<"clone", "fetch origin", "checkout">>)
              /\ (pc = "_get_source_details") => Len(PathIssued) = 3
              /\ \A i \in 1..Len(PathIssued) :
                    LET c == PathIssued[i].command IN
                    /\ i = 1 => "--branch" \notin Range(c)
                    /\ i = 2 => c = <<"git", "-C", git.source_dir, "fetch",
                                      "origin", git.source_commit[1]>>
                    /\ i = 3 => c = <<"git", "-C", git.source_dir, "checkout",
                                      git.source_commit[1]>>
        /\ ~Truthy(git.source_commit) =>
              IsPrefix(Kinds(PathIssued), <<"clone">>)

C11_Witness ==
    /\ git # NoGit
    /\ ~calledWithDotGit
    /\ pc = "_get_source_details"
    /\ git.source_commit = Some("abc1234")
    /\ Len(issued) = 3
    /\ issued[3].command =
          <<"git", "-C", "parts/foo/src", "checkout", "abc1234">>
    /\ \A i \in 1..3 : issued[i].exit_code = 0

(* C12: the clone command is `git clone`, carries --branch <ref> exactly   *)
(* when a tag or a branch is set (the ref being that tag or branch),       *)
(* --depth <n> exactly when a depth is set, a bare --recursive exactly     *)
(* when source_submodules is None, and ends with the source URL followed   *)
(* by the target directory.                                                *)
C12_DepthText == <<"1", "2", "3", "4">>

C12_Follows(c, flag, value) ==
    \E i \in 1..(Len(c) - 1) : c[i] = flag /\ c[i + 1] = value

C12_CloneArguments ==
    git # NoGit =>
        \A i \in 1..Len(issued) :
            LET c == issued[i].command IN
            Kind(c) = "clone" =>
                /\ c[1] = "git"
                /\ "--branch" \in Range(c) <=>
                      (Truthy(git.source_tag) \/ Truthy(git.source_branch))
                /\ Truthy(git.source_tag) =>
                      C12_Follows(c, "--branch", git.source_tag[1])
                /\ Truthy(git.source_branch) =>
                      C12_Follows(c, "--branch", git.source_branch[1])
                /\ "--depth" \in Range(c) <=> TruthyInt(git.source_depth)
                /\ TruthyInt(git.source_depth) =>
                      C12_Follows(c, "--depth",
                                  C12_DepthText[git.source_depth[1]])
                /\ "--recursive" \in Range(c) <=> git.source_submodules = None
                /\ c[Len(c) - 1] = git.source
                /\ c[Len(c)] = git.source_dir

C12_Witness ==
    /\ git # NoGit
    /\ issued # << >>
    /\ issued[1].command =
          <<"git", "clone", "--recursive", "--branch", "v1.2", "--depth", "2",
            "https://example.com/repo.git", "parts/foo/src">>

(* C13 as stated: after a pull that did not fail source_details has        *)
(* exactly the keys source-commit, source-branch, source, source-tag and   *)
(* source-checksum, source-checksum is None, source-tag and source-branch  *)
(* are the constructor's, and with no selector set source-commit is the    *)
(* output of rev-parse HEAD.                                               *)
PullSucceeded == pc = "idle" /\ raised = NoError /\ issued # << >>

C13_Keys ==
    {"source-commit", "source-branch", "source", "source-tag",
     "source-checksum"}

C13_NoSelector == \A f \in SelectorFields : ~Truthy(args[f])

C13_Recorded ==
    LET d == git.source_details[1] IN
    /\ DOMAIN d = C13_Keys
    /\ d["source-tag"] = args.source_tag
    /\ d["source-branch"] = args.source_branch
    /\ d["source"] = Some(args.source)
    /\ C13_NoSelector =>
          /\ Kind(issued[Len(issued)].command) = "rev-parse"
          /\ d["source-commit"] = Some(issued[Len(issued)].output)
    /\ ~C13_NoSelector => d["source-commit"] = args.source_commit

----------------------------------------------------------------------------
(* Claims about generate_version and check_command_installed (SpecClass) *)

VersionDone == call.op = "generate_version" /\ cpc = "idle"

PrimarySucceeded ==
    /\ VersionDone
    /\ Len(queries) = 1
    /\ queries[1].found
    /\ queries[1].exit_code = 0

\* s is t followed by the newline that git ends its message with.
IsLine(s, t) == s = t \o "\n"

(* C14: generate_version runs `describe --dirty --always` only as its      *)
(* second query, after `describe --dirty` has run and exited non-zero; if  *)
(* the fallback exits with 0 and prints H, the short hash with -dirty      *)
(* exactly when the tree is dirty, the result is "0+git." followed by H;   *)
(* if it exits non-zero the call raises VCSError whose message is the text *)
(* the fallback wrote to stderr.                                           *)
C14_FallbackOnlyAfterFailure ==
    call.op = "generate_version" =>
        /\ \A i \in 1..Len(queries) :
              queries[i].command = DescribeAlwaysCmd(call.source_dir) =>
                  /\ i = 2
                  /\ queries[1].command = DescribeCmd(call.source_dir)
                  /\ queries[1].found
                  /\ queries[1].exit_code # 0
        /\ (Len(queries) = 2 /\ cpc = "idle") =>
              /\ queries[2].command = DescribeAlwaysCmd(call.source_dir)
              /\ IF queries[2].exit_code = 0
                 THEN /\ outcome =
                            Returned("0+git." \o tree.commit \o DirtySuffix(tree))
                      /\ IsLine(queries[2].stdout,
                                tree.commit \o DirtySuffix(tree))
                 ELSE /\ outcome.kind = "raise"
                      /\ outcome.error.kind = "VCSError"
                      /\ IsLine(queries[2].stderr, outcome.error.message)

C14_Witness ==
    /\ VersionDone
    /\ Len(queries) = 2
    /\ queries[1].exit_code = 128
    /\ tree.dirty
    /\ outcome = Returned("0+git.abc1234-dirty")

\* The line that the primary query printed.
PrimaryOutput == SubSeq(queries[1].stdout, 1, Len(queries[1].stdout) - 1)

\* o is <tag>-<N>-g<commit><d>: the tag is o[1..k], of tag characters; N is
\* o[k+2..i-1], of digits; the commit is from i+2 to where d begins, of
\* hexadecimal digits; none of the three is empty.
C15_Shape(o, k, i, d) ==
    LET e == Len(o) - Len(d) IN
    /\ k >= 1
    /\ i > k + 2
    /\ e >= i + 2
    /\ Char(o, k + 1) = "-"
    /\ SubSeq(o, i, i + 1) = "-g"
    /\ SubSeq(o, e + 1, Len(o)) = d
    /\ \A j \in 1..k : Char(o, j) \in TagClass
    /\ \A j \in (k + 2)..(i - 1) : Char(o, j) \in DigitClass
    /\ \A j \in (i + 2)..e : Char(o, j) \in HexClass

C15_Shapes(o) ==
    {x \in (1..Len(o)) \X (1..Len(o)) \X {"", "-dirty"} :
        C15_Shape(o, x[1], x[2], x[3])}

\* <tag>+git<N>.<commit><d>
C15_Formatted(o, k, i, d) ==
    SubSeq(o, 1, k) \o "+git" \o SubSeq(o, k + 2, i - 1) \o "."
        \o SubSeq(o, i + 2, Len(o) - Len(d)) \o d

C16_PureTagReturned ==
    (/\ PrimarySucceeded
     /\ tree.kind = "tagged"
     /\ tree.ahead = 0
     /\ ~tree.dirty)
        => /\ PrimaryOutput = tree.tag
           /\ outcome = Returned(tree.tag)

(* C17: for every tree N >= 1 commits ahead of its nearest tag T at short  *)
(* hash H, the result of generate_version is T+gitN.H, followed by -dirty  *)
(* exactly when the tree has uncommitted changes, whatever characters T    *)
(* contains.                                                               *)
C17_TagRelativeReturned ==
    (/\ PrimarySucceeded
     /\ tree.kind = "tagged"
     /\ tree.ahead >= 1)
        => outcome =
              Returned(tree.tag \o "+git" \o str(tree.ahead) \o "."
                       \o tree.commit \o DirtySuffix(tree))

(* C18: check_command_installed runs `git version` once; it returns True  *)
(* when the command ran and exited with 0, returns False when the git      *)
(* binary was not found, and otherwise returns no boolean: the failure of  *)
(* the command, a non-zero exit, reaches the caller as it was raised.      *)
C18_InstalledProbe ==
    call.op = "check_command_installed" =>
        /\ Len(queries) = 1
        /\ queries[1].command = VersionCmd
        /\ queries[1].found = tree.installed
        /\ (queries[1].found /\ queries[1].exit_code = 0)
              => outcome = Returned(TRUE)
        /\ ~queries[1].found => outcome = Returned(FALSE)
        /\ (queries[1].found /\ queries[1].exit_code # 0)
              => /\ outcome.kind = "raise"
                 /\ outcome.error.kind = "CalledProcessError"
                 /\ outcome.error.returncode = queries[1].exit_code

C18_Witness ==
    /\ call.op = "check_command_installed"
    /\ tree.installed
    /\ queries[1].exit_code = 128
    /\ outcome.kind = "raise"
    /\ outcome.error.kind = "CalledProcessError"

----------------------------------------------------------------------------
(* Claims about init, add, commit and push (SpecAuthoring) *)

Wrappers == {"init", "add", "commit", "push"}

C19_LeadingWords ==
    CASE call.op = "init" -> <<"git", "-C", git.source_dir, "init">>
      [] call.op = "add" -> <<"git", "-C", git.source_dir, "add">>
      [] call.op = "commit" ->
            <<"git", "-C", git.source_dir, "commit", "--no-gpg-sign",
              "--message", call.message, "--author">>
      [] call.op = "push" ->
            <<"git", "-C", git.source_dir, "push", call.url, call.refspec>>

C19_TrailingWords ==
    CASE call.op = "init" -> 0
      [] call.op = "add" -> 1
      [] call.op = "commit" -> 1
      [] call.op = "push" -> IF call.force THEN 1 ELSE 0

(* C19: each of init, add, commit and push issues exactly one git command; *)
(* when the command exits non-zero the call raises GitCommandError with    *)
(* that command list, its exit code and its captured output, and when it   *)
(* exits with 0 the call returns; the command of push ends with --force    *)
(* exactly when force is true, and the author of commit is the given one,  *)
(* or "snapcraft <snapcraft@snapcraft_legacy.local>" when none is given.   *)
C19_OneCommandOrGitCommandError ==
    call.op \in Wrappers =>
        LET q == queries[1] IN
        /\ Len(queries) = 1
        /\ IsPrefix(C19_LeadingWords, q.command)
        /\ Len(q.command) = Len(C19_LeadingWords) + C19_TrailingWords
        /\ (q.found /\ q.exit_code # 0) =>
              outcome = Raised([kind |-> "GitCommandError",
                                command |-> q.command,
                                exit_code |-> q.exit_code,
                                output |-> q.stdout])
        /\ (q.found /\ q.exit_code = 0) => outcome.kind = "return"
        /\ call.op = "push" =>
              /\ "--force" \in Range(q.command) <=> call.force
              /\ call.force => q.command[Len(q.command)] = "--force"
        /\ call.op = "commit" =>
              q.command[Len(q.command)] =
                  IF call.author = None
                  THEN "snapcraft <snapcraft@snapcraft_legacy.local>"
                  ELSE call.author[1]

C19_Witness ==
    /\ call.op = "push"
    /\ call.force
    /\ queries[1].exit_code = 128
    /\ outcome.kind = "raise"
    /\ outcome.error.kind = "GitCommandError"
    /\ outcome.error.command =
          <<"git", "-C", "/srv/repo", "push", "https://example.com/repo.git",
            "HEAD:main", "--force">>

\* The file lies under the directory: the components of the directory's
\* absolute path are the first components of the file's, which has more.
C20_Under(file, dir) ==
    /\ Len(PathList(dir)) < Len(PathList(file))
    /\ IsPrefix(PathList(dir), PathList(file))

(* C20: add passes the file's path relative to the target directory if    *)
(* and only if the file lies under the target directory; a path that only  *)
(* shares a string prefix with the directory, or lies elsewhere, is passed *)
(* unchanged.                                                              *)
C20_RelativeIffUnder ==
    (call.op = "add" /\ queries[1].found) =>
        queries[1].command[5] =
            IF C20_Under(call.file, git.source_dir)
            THEN relpath(call.file, git.source_dir)
            ELSE call.file

----------------------------------------------------------------------------
(* Claims about repeated pulls (Spec) *)

\* A step that is a call of pull.
C21_PullCalled == pc = "idle" /\ pc' \notin {"idle", "no_object"}

C21_Step ==
    /\ C21_PullCalled =>
          /\ pc' = IF dotGit THEN "_pull_existing" ELSE "_clone_new"
          /\ dotGit' = dotGit
    /\ (pc = "_clone_new" /\ raised' = NoError) => dotGit'
    /\ (dotGit /\ ~dotGit') => (pc = "idle" /\ pc' = "idle")

(* C21: every call of pull on a Git object chooses the update sequence if  *)
(* <source_dir>/.git exists at that call and the clone sequence if not,    *)
(* whatever the earlier pulls of the object did: a clone that succeeds     *)
(* leaves the directory in place, so that the next pull updates, and the   *)
(* directory goes away only between pulls, after which the next pull       *)
(* clones again.                                                           *)
C21_RecomputedOnEveryPull == [][C21_Step]_vars

\* A pull clones although an earlier pull of the same object succeeded.
C21_Witness ==
    /\ pc = "_clone_new"
    /\ ~calledWithDotGit
    /\ ~dotGit
    /\ git.source_details # None

----------------------------------------------------------------------------
(* Claims about packing and the snap configuration (SpecPack) *)

\* pack_snap has run `snap pack` for the artifact.
PackSnapPacked == call.op = "pack_snap" /\ Len(queries) = 2

C22_IsDirectory(output) ==
    \/ output \in {"/tmp", "."}
    \/ output \in {"out", "out/"} /\ "/home/user/project/out" \in fs

C22_NoOutput == call.output \in {None, Some("")}

\* The directory the artifact is to be written to, for each `output`.
C22_Directory ==
    IF C22_NoOutput THEN "/home/user/project"
    ELSE CASE call.output[1] = "." -> "/home/user/project"
           [] call.output[1] = "/tmp" -> "/tmp"
           [] call.output[1] \in {"out", "out/"} ->
                 IF C22_IsDirectory(call.output[1])
                 THEN "/home/user/project/out"
                 ELSE "/home/user/project"
           [] call.output[1] = "dist/hello.snap" -> "/home/user/project/dist"
           [] call.output[1] = "hello.snap" -> "/home/user/project"
           [] call.output[1] = "/tmp/x.snap" -> "/tmp"
           [] call.output[1] = "../up.snap" -> "/home/user"

\* The file name in `output`, for each `output` that is not a directory.
C22_NameInOutput ==
    CASE call.output[1] \in {"out", "out/"} -> "out"
      [] call.output[1] = "dist/hello.snap" -> "hello.snap"
      [] call.output[1] = "hello.snap" -> "hello.snap"
      [] call.output[1] = "/tmp/x.snap" -> "x.snap"
      [] call.output[1] = "../up.snap" -> "up.snap"

C22_Filename ==
    IF ~C22_NoOutput /\ ~C22_IsDirectory(call.output[1])
    THEN <<"--filename", C22_NameInOutput>>
    ELSE IF call.name # None /\ call.version # None /\ call.target # None
    THEN <<"--filename", "hello_1.0_amd64.snap">>
    ELSE << >>

C22_Compression ==
    IF call.compression = Some("xz") THEN <<"--compression", "xz">> ELSE << >>

(* C22: `snap pack` is run by pack_snap with the output location chosen    *)
(* from `output`: an existing directory gives that directory and the       *)
(* default name <name>_<version>_<target>.snap, as --filename only when    *)
(* name, version and target are all given; a file path gives its parent    *)
(* directory and its base name; a bare file name gives the current working *)
(* directory and that name; no output gives the current working directory  *)
(* and the default name.  A name taken from `output` wins over name,       *)
(* version and target.                                                     *)
C22_OutputLocation ==
    PackSnapPacked =>
        queries[2].command =
            <<"snap", "pack">> \o C22_Filename \o C22_Compression
            \o <<call.directory, C22_Directory>>

C22_Witness ==
    /\ PackSnapPacked
    /\ call.output = Some("dist/hello.snap")
    /\ call.name # None /\ call.version # None /\ call.target # None
    /\ queries[2].command =
          <<"snap", "pack", "--filename", "hello.snap", "prime",
            "/home/user/project/dist">>
    /\ outcome = Returned("hello.snap")

\* Which program each query of pack_component ran.
C28_Kinds ==
    [i \in 1..Len(queries) |->
        IF queries[i].command = RefreshCmd THEN "refresh"
        ELSE IF SubSeq(queries[i].command, 1, 2) = <<"snap", "pack">>
        THEN "pack"
        ELSE "other"]

C28_Failed(q) == q.found /\ q.exit_code # 0

C28_Succeeded(q) == q.found /\ q.exit_code = 0

(* C28: pack_component attempts the packing at most twice, and runs        *)
(* `snap refresh --edge snapd` at most once, only after the first attempt  *)
(* raised SnapcraftError and before the second: the queries are a prefix   *)
(* of pack, refresh, pack.  A first attempt that succeeds ends the call    *)
(* with its result; a refresh that exits non-zero ends the call with       *)
(* SnapcraftError and no second attempt; the second attempt ends the call  *)
(* with its own result or error.                                           *)
C28_AtMostTwoAttempts ==
    call.op = "pack_component" =>
        /\ IsPrefix(C28_Kinds, <<"pack", "refresh", "pack">>)
        /\ Len(queries) >= 1
        /\ Len(queries) >= 2 => C28_Failed(queries[1])
        /\ Len(queries) = 3 => C28_Succeeded(queries[2])
        /\ cpc = "pack_component.refresh" => Len(queries) = 1
        /\ cpc = "pack_component.retry" => Len(queries) = 2
        /\ cpc = "idle" =>
              LET last == queries[Len(queries)] IN
              /\ ~C28_Failed(queries[1]) => Len(queries) = 1
              /\ Len(queries) = 2 => ~C28_Succeeded(last)
              /\ C28_Succeeded(last) => outcome.kind = "return"
              /\ C28_Failed(last) =>
                    /\ outcome.kind = "raise"
                    /\ outcome.error.kind =
                          IF Len(queries) = 2 THEN "SnapcraftError"
                          ELSE "SnapPackError"
                    /\ outcome.error.cause.cmd = last.command

C28_Witness ==
    /\ call.op = "pack_component"
    /\ cpc = "idle"
    /\ C28_Kinds = <<"pack", "refresh", "pack">>
    /\ outcome.kind = "raise"
    /\ outcome.error.kind = "SnapPackError"
    /\ outcome.error.resolution # None

\* get_snap_config called `name`, and the call ended with `result`.
C25_Ended(name, result) ==
    \E i \in 1..Len(events) :
        events[i].call = name /\ events[i].result = result

C25_Errors == {"AttributeError", "SnapCtlError"}

(* C25: get_snap_config always returns; it returns None when snapcraft is  *)
(* not running from a snap, when the construction of the options object    *)
(* raised AttributeError or SnapCtlError, and when the fetch raised one of *)
(* them; it returns a SnapConfig with no provider when the fetched         *)
(* configuration is empty, and one with the fetched provider otherwise.    *)
C25_SnapConfigOrNone ==
    call.op = "get_snap_config" =>
        /\ outcome.kind = "return"
        /\ C25_Ended("is_snapcraft_running_from_snap", "False")
              => outcome.value = None
        /\ \A e \in C25_Errors :
              /\ C25_Ended("SnapConfigOptions", e) => outcome.value = None
              /\ C25_Ended("fetch", e) => outcome.value = None
        /\ C25_Ended("as_dict", {})
              => outcome.value = Some([provider |-> None])
        /\ \A p \in {"lxd", "multipass"} :
              C25_Ended("as_dict", {<<"provider", p>>})
                  => outcome.value = Some([provider |-> Some(p)])

C25_Witness ==
    /\ call.op = "get_snap_config"
    /\ C25_Ended("SnapConfigOptions", "ok")
    /\ C25_Ended("fetch", "SnapCtlError")
    /\ outcome = Returned(None)

----------------------------------------------------------------------------
(* Claims about the store wrappers (SpecStore) *)

\* What the running call did, by name.
EventNames == [i \in 1..Len(events) |-> events[i].ev]

Unauthorized == Raised([kind |-> "StoreServerError", status_code |-> 401])

\* A call of a method under _login_wrapper, made directly, has ended.
LoginDecoratorDone == call.op = "login_decorator" /\ cpc = "idle"

(* C26: when the wrapped call fails with a 401 StoreServerError while the  *)
(* store credentials variable is set, login_decorator raises               *)
(* SnapcraftEnvironmentError with the message 'Provided credentials are no *)
(* longer valid for the Snap Store. Regenerate them and try again.',       *)
(* chained to the store error.                                             *)
C26_EnvironmentErrorRaised ==
    (/\ LoginDecoratorDone
     /\ events[1].result = Unauthorized
     /\ environ = Some("exported-credentials"))
        => /\ outcome.kind = "raise"
           /\ outcome.error.kind = "SnapcraftEnvironmentError"
           /\ outcome.error.message =
                 "Provided credentials are no longer valid for the Snap "
                 \o "Store. Regenerate them and try again."
           /\ outcome.error.cause = Unauthorized.error

\* The structure of a call under _login_wrapper, for a reading `unset` of
\* "no store credentials variable is set".
C27_Structure(unset) ==
    call.op = "login_decorator" =>
        /\ IsPrefix(EventNames,
                    <<"method", "logout", "echo.info", "login", "method">>)
        /\ Len(events) >= 1
        /\ Len(events) >= 2 => (events[1].result = Unauthorized /\ unset)
        /\ Len(events) = 5 => events[4].result.kind = "return"
        /\ cpc = "idle" =>
              /\ Len(events) \in {1, 4, 5}
              /\ outcome = events[Len(events)].result
              /\ Len(events) = 4 => outcome.kind = "raise"
              /\ events[1].result # Unauthorized => Len(events) = 1

C27_RetryOnlyWhenAbsent == C27_Structure(environ = None)

(* C27 as amended: a method under _login_wrapper is invoked at most twice  *)
(* per call; the second invocation happens only after the first raised a   *)
(* 401 StoreServerError while the store credentials variable was absent or *)
(* empty, and only after logout and then login have run, in that order,    *)
(* and login has returned; whatever the second invocation does ends the    *)
(* call, with no other logout or login; an error that is not a 401         *)
(* StoreServerError ends the call with no logout, login or retry.          *)
C27_RetryAtMostOnce == C27_Structure(environ \in {None, Some("")})

C27_Witness ==
    /\ LoginDecoratorDone
    /\ Len(events) = 5
    /\ environ = Some("")
    /\ events[5].result = Unauthorized
    /\ outcome = Unauthorized

\* create_key has asked the store for the account and was told 401.
C23_Answered401 ==
    /\ call.op = "create_key"
    /\ Len(events) >= 2
    /\ events[2].result = Unauthorized

\* `snap create-key <name>` was the last thing create_key did.
C23_CreateKeyRan ==
    events[Len(events)] = Subprocess(<<"snap", "create-key", call.name>>)

(* C23: when the store answers create_key's account request with a 401,   *)
(* create_key neither logs out nor logs in and ends by running            *)
(* `snap create-key <name>`; and when a local key of the name exists      *)
(* create_key raises KeyAlreadyExistsError having made no store request.  *)
C23_NoLoginRequired ==
    /\ C23_Answered401 =>
          /\ \A i \in 1..Len(events) : events[i].ev \notin {"logout", "login"}
          /\ cpc = "idle" => C23_CreateKeyRan
    /\ (call.op = "create_key" /\ call.name \in call.keys) =>
          /\ events = <<Subprocess(<<"snap", "keys", "--json">>)>>
          /\ outcome = Raised([kind |-> "KeyAlreadyExistsError",
                               name |-> call.name])

\* A call of _check_dev_agreement_and_namespace_statuses has ended.
C24_Ended ==
    call.op = "_check_dev_agreement_and_namespace_statuses" /\ cpc = "idle"

\* The i-th thing the call did was an account request that failed with a
\* StoreAccountInformationError about neither the agreement nor the
\* namespace.
C24_OtherError(i) ==
    /\ events[i].ev = "get_account_information"
    /\ events[i].result.kind = "raise"
    /\ events[i].result.error.kind = "StoreAccountInformationError"
    /\ events[i].result.error.error
          \notin {"Developer has not signed agreement.",
                  "Developer profile is missing short namespace.",
                  "Error: Developer profile is missing short namespace."}

(* C24: when an account request of                                        *)
(* _check_dev_agreement_and_namespace_statuses fails with a               *)
(* StoreAccountInformationError that is neither the missing agreement nor *)
(* the missing namespace, the call raises that error; and the call        *)
(* returns normally only if no such error occurred.                       *)
C24_OtherErrorReraised ==
    C24_Ended =>
        \A i \in 1..Len(events) :
            C24_OtherError(i) => outcome = events[i].result

\* The upload failed with a StoreUploadError listing resource-not-found.
C30_NotFound(r) ==
    /\ r.kind = "raise"
    /\ r.error.kind = "StoreUploadError"
    /\ \E i \in 1..Len(r.error.error_list) :
          r.error.error_list[i] = "resource-not-found"

(* C30: under _register_wrapper the snap is registered only after the     *)
(* wrapped call failed with a StoreUploadError listing                    *)
(* 'resource-not-found' and the user confirmed; once register has         *)
(* returned the wrapped call is invoked again exactly once and its result *)
(* ends the call. An error without 'resource-not-found' is re-raised with *)
(* no prompt, and when the user declines the first error is re-raised;    *)
(* in both cases there is no register and no second invocation.           *)
C30_RegisterThenRetryOnce ==
    call.op = "register_decorator" =>
        /\ IsPrefix(EventNames, <<"method", "echo.wrapped", "echo.confirm",
                                  "register", "method">>)
        /\ Len(events) >= 1
        /\ Len(events) >= 2 => C30_NotFound(events[1].result)
        /\ Len(events) >= 4 =>
              /\ events[3].answer
              /\ events[4].snap_name = call.snap_name
        /\ Len(events) = 5 =>
              /\ events[4].result.kind = "return"
              /\ events[5].name = events[1].name
        /\ cpc = "idle" =>
              /\ Len(events) \in {1, 3, 4, 5}
              /\ Len(events) = 1 =>
                    /\ ~C30_NotFound(events[1].result)
                    /\ outcome = events[1].result
              /\ Len(events) = 3 =>
                    /\ ~events[3].answer
                    /\ outcome = events[1].result
              /\ Len(events) = 4 =>
                    /\ events[4].result.kind = "raise"
                    /\ outcome = events[4].result
              /\ Len(events) = 5 => outcome = events[5].result

C30_Witness ==
    /\ call.op = "register_decorator"
    /\ cpc = "idle"
    /\ Len(events) = 5
    /\ C30_NotFound(events[1].result)
    /\ C30_NotFound(events[5].result)
    /\ outcome = events[5].result

\* register_key is running under wrapped_env.
C29_Running ==
    /\ call.op = "register_key"
    /\ cpc \in {"register_key.key", "register_key.login",
                "register_key.register", "wrapped_env.finally"}

\* The frame of save_key for a reading `hidden` of "the variable is unset
\* while the function runs".
C29_Frame(hidden) ==
    /\ C29_Running => hidden
    /\ call.op = "register_key" =>
          \A i \in 1..Len(events) :
              events[i].environ = None \/ events[i].environ = Some("")
    /\ (call.op = "register_key" /\ cpc = "idle") =>
          environ = call.credentials

C29_UnsetWhileRunning == C29_Frame(environ = None)

(* C29 as amended: while the function wrapped by save_key runs the store  *)
(* credentials variable is unset or empty, never a non-empty value; after *)
(* the call, returned or raised, the variable has exactly the value it    *)
(* had before the call, and is absent if it was absent.                   *)
C29_HiddenThenRestored == C29_Frame(environ \in {None, Some("")})

C29_Witness ==
    /\ call.op = "register_key"
    /\ cpc = "idle"
    /\ outcome.kind = "raise"
    /\ Len(events) = 3
    /\ events[3].environ = None
    /\ environ = Some("exported-credentials")

====
